---- MODULE Spec2Model ----
(***************************************************************************)
(* ScrapeScope: the App component (URL loading, selection and hover, the  *)
(* scrape-target set, script generation and execution), the VisualViewer  *)
(* (iframe content, listener attachment, overlays) and the DOM parser.    *)
(*                                                                         *)
(* Raw HTML is represented by the DOM the host parser builds from it: a    *)
(* document is a record [body |-> childNodes of <body>].  Text is a        *)
(* sequence of one-character strings, so trimming and truncation are       *)
(* computed, not assumed.                                                  *)
(***************************************************************************)
EXTENDS Integers, Sequences, FiniteSets, TLC

\* JavaScript null for the string-valued state (selectedId, hoveredId).
NULL == "null"

(***************************************************************************)
(* DOM values handed to the parser by the host (DOMParser).                *)
(***************************************************************************)
Element(tagName, attrs, childNodes) ==
    [nodeType |-> "ELEMENT_NODE", tagName |-> tagName, attrs |-> attrs,
     textContent |-> <<>>, childNodes |-> childNodes]

TextNode(chars) ==
    [nodeType |-> "TEXT_NODE", tagName |-> "#text", attrs |-> <<>>,
     textContent |-> chars, childNodes |-> <<>>]

\* Text of the documents, one character per element.
TxtWelcome ==
    << "W", "e", "l", "c", "o", "m", "e", " ", "t", "o", " ", "S", "c", "r",
    "a", "p", "e", "S", "c", "o", "p", "e" >>

TxtInspect ==
    << "I", "n", "s", "p", "e", "c", "t", " ", "y", "o", "u", "r", " ", "s",
    "c", "r", "a", "p", "e", "d", " ", "H", "T", "M", "L", " ", "w", "i",
    "t", "h", " " >>

TxtPrecision ==
    << "p", "r", "e", "c", "i", "s", "i", "o", "n" >>

TxtDot ==
    << "." >>

TxtGetStarted ==
    << "G", "e", "t", " ", "S", "t", "a", "r", "t", "e", "d" >>

TxtVisual ==
    << "V", "i", "s", "u", "a", "l", " ", "I", "n", "s", "p", "e", "c", "t",
    "o", "r" >>

TxtIframe ==
    << "N", "o", "w", " ", "r", "u", "n", "n", "i", "n", "g", " ", "i", "n",
    "s", "i", "d", "e", " ", "a", "n", " ", "i", "f", "r", "a", "m", "e",
    " ", "f", "o", "r", " ", "b", "e", "t", "t", "e", "r", " ", "i", "s",
    "o", "l", "a", "t", "i", "o", "n", "." >>

TxtCode ==
    << "C", "o", "d", "e", " ", "E", "x", "p", "l", "o", "r", "e", "r" >>

TxtSyncs ==
    << "S", "y", "n", "c", "s", " ", "p", "e", "r", "f", "e", "c", "t", "l",
    "y", " ", "w", "i", "t", "h", " ", "t", "h", "e", " ", "v", "i", "s",
    "u", "a", "l", " ", "v", "i", "e", "w", "." >>

TxtHello ==
    << "H", "e", "l", "l", "o" >>

TxtWorld ==
    << "W", "o", "r", "l", "d" >>

TxtNext ==
    << "N", "e", "x", "t" >>

TxtNews ==
    << "N", "e", "w", "s" >>

Ws1 ==
    << "\n" >>

Ws2 ==
    << "\n", " ", " " >>

Ws4 ==
    << "\n", " ", " ", " ", " " >>

Ws6 ==
    << "\n", " ", " ", " ", " ", " ", " " >>

WsTail ==
    << "\n", "\n", "\n" >>

Whitespace == {" ", "\n", "\t", "\r"}

\* String.prototype.trim on a character sequence.
RECURSIVE TrimLeft(_)
TrimLeft(s) ==
    IF s = <<>> THEN <<>>
    ELSE IF Head(s) \in Whitespace THEN TrimLeft(Tail(s)) ELSE s

RECURSIVE TrimRight(_)
TrimRight(s) ==
    IF s = <<>> THEN <<>>
    ELSE IF s[Len(s)] \in Whitespace THEN TrimRight(SubSeq(s, 1, Len(s) - 1))
    ELSE s

Trim(s) == TrimRight(TrimLeft(s))

\* String.prototype.substring(0, n).
Substring0(s, n) == SubSeq(s, 1, IF Len(s) < n THEN Len(s) ELSE n)

\* tagName.toLowerCase() for the tag names of the documents.
ToLowerCase(tagName) ==
    CASE tagName = "DIV"    -> "div"
      [] tagName = "H1"     -> "h1"
      [] tagName = "H2"     -> "h2"
      [] tagName = "P"      -> "p"
      [] tagName = "SPAN"   -> "span"
      [] tagName = "BUTTON" -> "button"
      [] tagName = "A"      -> "a"
      [] tagName = "IMG"    -> "img"
      [] tagName = "BR"     -> "br"
      [] OTHER              -> tagName

\* EXAMPLE_HTML: the <body> of the built-in example page.
ExampleCard(title, text) ==
    Element("DIV", << <<"class", "card">> >>,
        << TextNode(Ws6), Element("H2", <<>>, << TextNode(title) >>),
           TextNode(Ws6), Element("P", <<>>, << TextNode(text) >>),
           TextNode(Ws4) >>)

EXAMPLE_HTML ==
    [body |-> <<
        TextNode(Ws1),
        Element("DIV", << <<"class", "hero">> >>, <<
            TextNode(Ws2),
            Element("H1", << <<"class", "h1">> >>, << TextNode(TxtWelcome) >>),
            TextNode(Ws2),
            Element("P", <<>>, <<
                TextNode(TxtInspect),
                Element("SPAN",
                    << <<"style", "color: #34d399; font-weight: bold;">> >>,
                    << TextNode(TxtPrecision) >>),
                TextNode(TxtDot) >>),
            TextNode(Ws2),
            Element("BUTTON", << <<"class", "btn">> >>,
                << TextNode(TxtGetStarted) >>),
            TextNode(Ws2),
            Element("DIV", << <<"class", "grid">> >>, <<
                TextNode(Ws4), ExampleCard(TxtVisual, TxtIframe),
                TextNode(Ws4), ExampleCard(TxtCode, TxtSyncs),
                TextNode(Ws2) >>),
            TextNode(Ws1) >>),
        TextNode(WsTail) >>]

\* The pages the fetch collaborator can return: <div><p>Hello</p><p>World</p></div>
\* and <a href="/next">Next</a><h1 id="title">News</h1>.
PageA ==
    [body |-> <<
        Element("DIV", <<>>, <<
            Element("P", <<>>, << TextNode(TxtHello) >>),
            Element("P", <<>>, << TextNode(TxtWorld) >>) >>) >>]

PageB ==
    [body |-> <<
        Element("A", << <<"href", "/next">> >>, << TextNode(TxtNext) >>),
        Element("H1", << <<"id", "title">> >>, << TextNode(TxtNews) >>) >>]

\* rawHtml holds the name of a document; Html gives its content.
HtmlNames == {"EXAMPLE_HTML", "pageA", "pageB"}

Html(name) ==
    CASE name = "EXAMPLE_HTML" -> EXAMPLE_HTML
      [] name = "pageA"        -> PageA
      [] name = "pageB"        -> PageB

(***************************************************************************)
(* utils/domParser: parseHtmlContent                                       *)
(***************************************************************************)
voidElements ==
    {"area", "base", "br", "col", "embed", "hr", "img", "input",
     "link", "meta", "param", "source", "track", "wbr"}

\* Array.from(domNode.attributes) without the injected attribute.
RECURSIVE CollectAttributes(_)
CollectAttributes(attrs) ==
    IF attrs = <<>> THEN <<>>
    ELSE IF Head(attrs)[1] # "data-inspector-id"
         THEN <<Head(attrs)>> \o CollectAttributes(Tail(attrs))
         ELSE CollectAttributes(Tail(attrs))

\* A path that gives every element child the same last segment.
ElementPathWithoutIndex(path, childIndex) == path \o "-0"

ElementPath(path, childIndex) == path \o "-" \o ToString(childIndex)

\* A text path that counts from 1.
TextPathFromOne(path, childIndex) == path \o "-txt-" \o ToString(childIndex + 1)

TextPath(path, childIndex) == path \o "-txt-" \o ToString(childIndex)

RECURSIVE traverse(_, _)
RECURSIVE traverseChildNodes(_, _, _, _)
\* The forEach over domNode.childNodes, from position i, with the running childIndex.
traverseChildNodes(childNodes, path, i, childIndex) ==
    IF i > Len(childNodes) THEN <<>>
    ELSE LET child == childNodes[i] IN
         IF child.nodeType = "ELEMENT_NODE"
         THEN <<traverse(child, ElementPath(path, childIndex))>>
              \o traverseChildNodes(childNodes, path, i + 1, childIndex + 1)
         ELSE IF child.nodeType = "TEXT_NODE" /\ Trim(child.textContent) # <<>>
         THEN << [id |-> TextPath(path, childIndex), tag |-> "#text",
                  attributes |-> <<>>, children |-> <<>>,
                  textContent |-> child.textContent, isSelfClosing |-> TRUE] >>
              \o traverseChildNodes(childNodes, path, i + 1, childIndex + 1)
         ELSE traverseChildNodes(childNodes, path, i + 1, childIndex)

traverse(domNode, path) ==
    [id |-> path,
     tag |-> ToLowerCase(domNode.tagName),
     attributes |-> CollectAttributes(domNode.attrs),
     children |-> traverseChildNodes(domNode.childNodes, path, 1, 0),
     textContent |-> <<>>,
     isSelfClosing |-> ToLowerCase(domNode.tagName) \in voidElements]

\* A setAttribute that leaves an attribute the element already has.
SetAttributeIfAbsent(attrs, name, value) ==
    IF \E k \in 1..Len(attrs) : attrs[k][1] = name
    THEN attrs
    ELSE Append(attrs, <<name, value>>)

\* domNode.setAttribute('data-inspector-id', path), applied down the subtree.
SetAttribute(attrs, name, value) ==
    IF \E k \in 1..Len(attrs) : attrs[k][1] = name
    THEN [k \in 1..Len(attrs) |->
            IF attrs[k][1] = name THEN <<name, value>> ELSE attrs[k]]
    ELSE Append(attrs, <<name, value>>)

RECURSIVE injectIds(_, _)
RECURSIVE injectChildNodes(_, _, _, _)
injectChildNodes(childNodes, path, i, childIndex) ==
    IF i > Len(childNodes) THEN <<>>
    ELSE LET child == childNodes[i] IN
         IF child.nodeType = "ELEMENT_NODE"
         THEN <<injectIds(child, ElementPath(path, childIndex))>>
              \o injectChildNodes(childNodes, path, i + 1, childIndex + 1)
         ELSE IF child.nodeType = "TEXT_NODE" /\ Trim(child.textContent) # <<>>
         THEN <<child>> \o injectChildNodes(childNodes, path, i + 1, childIndex + 1)
         ELSE <<child>> \o injectChildNodes(childNodes, path, i + 1, childIndex)

injectIds(domNode, path) ==
    [domNode EXCEPT
        !.attrs = SetAttribute(domNode.attrs, "data-inspector-id", path),
        !.childNodes = injectChildNodes(domNode.childNodes, path, 1, 0)]

\* body.children: the element children of <body>.
BodyChildren(html) ==
    SelectSeq(html.body, LAMBDA n : n.nodeType = "ELEMENT_NODE")

rootNode(children) ==
    [id |-> "root", tag |-> "div",
     attributes |-> << <<"class", "inspector-root">> >>,
     children |-> children, textContent |-> <<>>, isSelfClosing |-> FALSE]

\* Positions of <body>'s child nodes with the number of elements before each.
RECURSIVE injectBody(_, _, _)
injectBody(childNodes, i, childIndex) ==
    IF i > Len(childNodes) THEN <<>>
    ELSE IF childNodes[i].nodeType = "ELEMENT_NODE"
    THEN <<injectIds(childNodes[i], ElementPath("root", childIndex))>>
         \o injectBody(childNodes, i + 1, childIndex + 1)
    ELSE <<childNodes[i]>> \o injectBody(childNodes, i + 1, childIndex)

parseHtmlContent(html) ==
    LET elements == BodyChildren(html) IN
    [root |-> rootNode([k \in 1..Len(elements) |->
                          traverse(elements[k], ElementPath("root", k - 1))]),
     injectedHtml |-> [body |-> injectBody(html.body, 1, 0)]]

\* useMemo(() => parseHtmlContent(rawHtml), [rawHtml]), one value per document.
Parsed == [name \in HtmlNames |-> parseHtmlContent(Html(name))]

(***************************************************************************)
(* Tree and document queries                                               *)
(***************************************************************************)
\* "No node": the null a search returns.  An element's absent textContent is the
\* empty sequence (every use in the code tests it for truthiness only).
NoNode ==
    [id |-> NULL, tag |-> NULL, attributes |-> <<>>, children |-> <<>>,
     textContent |-> <<>>, isSelfClosing |-> FALSE]

RECURSIVE findNode(_, _)
RECURSIVE findNodeIn(_, _, _)
\* The for loop of findNode over node.children, from position i.
findNodeIn(children, i, id) ==
    IF i > Len(children) THEN NoNode
    ELSE LET found == findNode(children[i], id) IN
         IF found # NoNode THEN found ELSE findNodeIn(children, i + 1, id)

findNode(node, id) ==
    IF node.id = id THEN node ELSE findNodeIn(node.children, 1, id)

RECURSIVE NodeIds(_)
\* The ids of a tree's nodes.
NodeIds(node) ==
    {node.id} \cup UNION {NodeIds(node.children[k]) : k \in 1..Len(node.children)}

RECURSIVE InspectorIds(_)
\* The data-inspector-id values carried by the elements under a list of DOM nodes:
\* what doc.querySelector('[data-inspector-id="..."]') can find.
InspectorIds(childNodes) ==
    UNION {
        LET n == childNodes[k] IN
        IF n.nodeType # "ELEMENT_NODE" THEN {}
        ELSE {n.attrs[a][2] : a \in {b \in 1..Len(n.attrs) :
                                        n.attrs[b][1] = "data-inspector-id"}}
             \cup InspectorIds(n.childNodes)
        : k \in 1..Len(childNodes)}

TreeIds == [name \in HtmlNames |-> NodeIds(Parsed[name].root)]

DocIds == [name \in HtmlNames |-> InspectorIds(Parsed[name].injectedHtml.body)]

(***************************************************************************)
(* utils/domParser: generateCssSelector                                    *)
(***************************************************************************)
\* A string the selector code builds is a sequence of pieces: a tag name, a
\* punctuation mark, a number or one character of an attribute value.
\* Concatenation (+ and template literals) is \o.

\* node.attributes[name]: the value, or the empty string when the attribute is
\* absent (the code only tests the value for truthiness before it uses it).
AttributeValue(attributes, name) ==
    IF \E k \in 1..Len(attributes) : attributes[k][1] = name
    THEN attributes[CHOOSE k \in 1..Len(attributes) : attributes[k][1] = name][2]
    ELSE <<>>

RECURSIVE SplitWhitespace(_, _)
\* String.prototype.split(/\s+/), with the token being read.
SplitWhitespace(s, token) ==
    IF s = <<>> THEN <<token>>
    ELSE IF Head(s) \in Whitespace
    THEN <<token>> \o SplitWhitespace(TrimLeft(s), <<>>)
    ELSE SplitWhitespace(Tail(s), Append(token, Head(s)))

RECURSIVE findPath(_, _, _)
RECURSIVE findPathIn(_, _, _, _)
\* The for loop of findPath over node.children, from position i.
findPathIn(children, i, currentPath, targetId) ==
    IF i > Len(children) THEN <<>>
    ELSE LET result == findPath(children[i], currentPath, targetId) IN
         IF result # <<>> THEN result
         ELSE findPathIn(children, i + 1, currentPath, targetId)

\* The nodes from the root to the target; the empty sequence for null.
findPath(node, currentPath, targetId) ==
    IF node.id = targetId THEN Append(currentPath, node)
    ELSE findPathIn(node.children, 1, Append(currentPath, node), targetId)

\* siblings.findIndex(c => c.id === id), counted from 0; -1 when there is none.
FindIndex(siblings, id) ==
    IF \E k \in 1..Len(siblings) : siblings[k].id = id
    THEN (CHOOSE k \in 1..Len(siblings) :
             /\ siblings[k].id = id
             /\ \A m \in 1..(k - 1) : siblings[m].id # id) - 1
    ELSE -1

\* An index that counts the same-tag siblings from 0.
NthOfTypeFromZero(indexInSiblings) ==
    <<":nth-of-type(", ToString(indexInSiblings), ")">>

\* `:nth-of-type(${indexInSiblings + 1})`
NthOfType(indexInSiblings) ==
    <<":nth-of-type(", ToString(indexInSiblings + 1), ")">>

\* A callback that takes the class branch before the id branch.
SegmentPreferringClass(node, parent) ==
    LET id == AttributeValue(node.attributes, "id")
        class == AttributeValue(node.attributes, "class")
    IN  IF class # <<>>
        THEN LET classes == SplitWhitespace(Trim(class), <<>>) IN
             IF Len(classes) > 0 /\ classes[1] # <<>>
             THEN <<node.tag, ".">> \o classes[1]
             ELSE <<node.tag>>
        ELSE IF id # <<>> THEN <<node.tag, "#">> \o id
        ELSE <<node.tag>>

\* The callback of pathNodes.map for one node and the path entry before it.
Segment(node, parent) ==
    LET id == AttributeValue(node.attributes, "id")
        class == AttributeValue(node.attributes, "class")
    IN  IF id # <<>> THEN <<node.tag, "#">> \o id
        ELSE IF class # <<>>
        THEN LET classes == SplitWhitespace(Trim(class), <<>>) IN
             IF Len(classes) > 0 /\ classes[1] # <<>>
             THEN <<node.tag, ".">> \o classes[1]
             ELSE <<node.tag>>
        ELSE LET siblings ==
                     SelectSeq(parent.children, LAMBDA c : c.tag = node.tag)
                 indexInSiblings == FindIndex(siblings, node.id)
             IN  IF Len(siblings) > 1 /\ indexInSiblings >= 0
                 THEN <<node.tag>> \o NthOfType(indexInSiblings)
                 ELSE <<node.tag>>

RECURSIVE JoinReversed(_, _)
\* A join that puts the last string first.
JoinReversed(strings, separator) ==
    IF strings = <<>> THEN <<>>
    ELSE IF Len(strings) = 1 THEN strings[1]
    ELSE JoinReversed(Tail(strings), separator) \o <<separator>> \o strings[1]

RECURSIVE Join(_, _)
\* Array.prototype.join
Join(strings, separator) ==
    IF strings = <<>> THEN <<>>
    ELSE IF Len(strings) = 1 THEN strings[1]
    ELSE strings[1] \o <<separator>> \o Join(Tail(strings), separator)

generateCssSelector(root, targetId) ==
    LET path == findPath(root, <<>>, targetId) IN
    IF path = <<>> THEN <<>>
    ELSE LET pathNodes == Tail(path) IN
         IF Len(pathNodes) = 0 THEN <<"root">>
         ELSE Join([idx \in 1..Len(pathNodes) |->
                       Segment(pathNodes[idx], path[idx])], " > ")

(***************************************************************************)
(* Documents for utils/domParser called on its own                         *)
(***************************************************************************)
\* Child nodes an element of a generated document has at most.
MaxChildren == 3

IdTitle == << "t", "i", "t", "l", "e" >>

ClassCardBig == << " ", "c", "a", "r", "d", " ", " ", "b", "i", "g" >>

ClassBlank == << " ", " " >>

\* The nodes a generated <div> can hold: text, whitespace, and <p> and <br>
\* elements with and without id and class.
LeafNodes ==
    { TextNode(TxtHello),
      TextNode(Ws1),
      Element("P", <<>>, <<>>),
      Element("P", << <<"id", IdTitle>> >>, <<>>),
      Element("P", << <<"class", ClassCardBig>> >>, <<>>),
      Element("P", << <<"class", ClassBlank>> >>, <<>>),
      Element("P", << <<"class", <<>>>> >>, <<>>),
      Element("P", << <<"id", IdTitle>>, <<"class", ClassCardBig>> >>, <<>>),
      Element("BR", <<>>, <<>>) }

\* An HTML parser never produces two adjacent text nodes.
NoAdjacentText(childNodes) ==
    \A k \in 1..(Len(childNodes) - 1) :
        childNodes[k].nodeType # "TEXT_NODE"
        \/ childNodes[k + 1].nodeType # "TEXT_NODE"

\* The child lists of at most maxChildren nodes.
ChildLists(maxChildren) ==
    { c \in UNION { [1..n -> LeafNodes] : n \in 0..maxChildren } :
        NoAdjacentText(c) }

\* <body> around a generated <div>: alone; after whitespace and a <p> that
\* already carries a data-inspector-id; after a run of text.
Bodies(div) ==
    { << div >>,
      << TextNode(Ws1),
         Element("P", << <<"data-inspector-id", "root-1">> >>,
                 << TextNode(TxtWorld) >>),
         TextNode(Ws2), div >>,
      << TextNode(TxtNews), div, TextNode(WsTail) >> }

\* The documents parseHtmlContent is called with.
Documents(maxChildren) ==
    UNION { { [body |-> b] : b \in Bodies(Element("DIV", <<>>, c)) } :
            c \in ChildLists(maxChildren) }

\* No call made yet.
NoParseCall ==
    [state |-> "none", html |-> [body |-> <<>>], root |-> NoNode,
     injectedHtml |-> [body |-> <<>>]]

\* A call with its argument, before it returns.
ParseCalled(html) ==
    [state |-> "called", html |-> html, root |-> NoNode,
     injectedHtml |-> [body |-> <<>>]]

NoSelectorCall == [targetId |-> NULL, selector |-> <<>>]

\* An id no node of a tree has.
NoSuchId == "root-x"

\* Text of the AI service and of the fixed labels.
\* The backtick character, which a TLA+ string cannot hold.
Backtick == "BACKTICK"

ElementLabel ==
    << "E", "l", "e", "m", "e", "n", "t" >>

NoApiKeyChunk ==
    << "/", "/", " ", "E", "r", "r", "o", "r", ":", " ", "N", "o", " ", "A",
    "P", "I", " ", "K", "e", "y" >>

GenerationErrorChunk ==
    << "/", "/", " ", "E", "r", "r", "o", "r", " ", "g", "e", "n", "e", "r",
    "a", "t", "i", "n", "g", " ", "s", "c", "r", "a", "p", "i", "n", "g",
    " ", "s", "c", "r", "i", "p", "t", ".", " ", "C", "h", "e", "c", "k",
    " ", "A", "P", "I", " ", "K", "e", "y", "." >>

\* The chunk analyzeElementStream yields without an API key.
NoApiKeyNotice ==
    << "P", "l", "e", "a", "s", "e", " ", "p", "r", "o", "v", "i", "d", "e",
    " ", "a", " ", "v", "a", "l", "i", "d", " ", "A", "P", "I", "_", "K",
    "E", "Y", " ", "i", "n", " ", "y", "o", "u", "r", " ", "e", "n", "v",
    "i", "r", "o", "n", "m", "e", "n", "t", " ", "v", "a", "r", "i", "a",
    "b", "l", "e", "s", " ", "t", "o", " ", "u", "s", "e", " ", "G", "e",
    "m", "i", "n", "i", " ", "f", "e", "a", "t", "u", "r", "e", "s", "." >>

\* The chunk analyzeElementStream yields when the call or the stream throws.
AnalysisErrorChunk ==
    << "F", "a", "i", "l", "e", "d", " ", "t", "o", " ", "a", "n", "a", "l",
    "y", "z", "e", " ", "e", "l", "e", "m", "e", "n", "t", ".", " ", "P",
    "l", "e", "a", "s", "e", " ", "c", "h", "e", "c", "k", " ", "y", "o",
    "u", "r", " ", "A", "P", "I", " ", "k", "e", "y", " ", "a", "n", "d",
    " ", "c", "o", "n", "n", "e", "c", "t", "i", "o", "n", "." >>

InsightOne ==
    << "A", " ", "h", "e", "a", "d", "i", "n", "g", " " >>

InsightTwo ==
    << "o", "f", " ", "t", "h", "e", " ", "c", "a", "r", "d", "." >>

ChunkOne ==
    << "f", "u", "n", "c", "t", "i", "o", "n", " ", "e", "x" >>

ChunkTwo ==
    << "t", "r", "a", "c", "t", "D", "a", "t", "a", "(", "d", "o", "c" >>

ChunkThree ==
    << ")", " ", "{", ".", ".", ".", "}" >>

FenceOpenChunk ==
    << Backtick, Backtick, Backtick, "j", "a", "v", "a", "s", "c", "r", "i", "p", "t", "\n" >>

FenceCloseChunk ==
    << Backtick, Backtick, Backtick >>

FenceJavascript ==
    << Backtick, Backtick, Backtick, "j", "a", "v", "a", "s", "c", "r", "i", "p", "t" >>

Fence ==
    << Backtick, Backtick, Backtick >>

(***************************************************************************)
(* Bounds and the inputs the environment offers                            *)
(***************************************************************************)
\* fetchUrlContent calls issued in one run.
MaxSubmits == 2

\* Entries the scrape-target sequence may hold.
MaxTargets == 2

\* setTimeout callbacks of the content-write effect pending at once.
MaxTimers == 2

\* Script generations started in one run.
MaxGenerations == 1

\* The addresses the user types, and the page each one serves.
Urls == {"a.test", "b.test"}

Served(url) == IF url = "a.test" THEN "pageA" ELSE "pageB"

\* What the user types into the Field Name and Instruction inputs.
FieldNames == {"title"}

Instructions == {"Get all links"}

\* The nodes the pointer visits: an element every page has (the link of page B),
\* an element of the example and of page A that page B lacks, a text run.
Pointable == {"root-0", "root-0-0", "root-0-0-txt-0"}

\* An event target with no [data-inspector-id] ancestor (<html>, <body>).
NoTarget == "none"

\* What the AI service sends for one generateContentStream call: the texts of its
\* chunks, and whether the call or the stream throws after them.
ServiceResponses ==
    { [chunks |-> <<ChunkOne, ChunkTwo, ChunkThree>>, throws |-> FALSE],
      [chunks |-> <<FenceOpenChunk, ChunkOne, FenceCloseChunk>>, throws |-> FALSE],
      [chunks |-> <<ChunkOne>>, throws |-> TRUE],
      [chunks |-> <<>>, throws |-> TRUE] }

(***************************************************************************)
(* State                                                                   *)
(***************************************************************************)
VARIABLES
    \* App: useState
    urlInput, loadedUrl, isLoadingUrl, rawHtml, selectedId, hoveredId,
    isInspectMode, scrapeTargets, targetName, targetDescription,
    generatedScript, scrapedResult, isScraping,
    \* App: the useMemo cache of currentSelector, keyed by selectedId
    currentSelector,
    \* environment: process.env.API_KEY is set; the fetchUrlContent calls in issue
    \* order; alert() calls made; the script generation in progress
    apiKey, fetches, alerts, generation,
    \* ai.models.generateContentStream calls made
    serviceCalls,
    \* App: useState of the AI insight, and the explanation stream in progress
    aiAnalysis, isAnalyzing, analysis,
    \* VisualViewer: useState, the iframe's document, the listeners the attachment
    \* effect holds, pending setTimeout callbacks, a pending load event
    iframeLoaded, frameDoc, listeners, timers, onloadPending,
    \* Overlay: the rect state of the selection and of the hover overlay
    selectedRect, hoveredRect,
    \* what became of the latest click on the rendered content
    lastClick,
    \* utils/domParser called on its own: the latest parseHtmlContent call (its
    \* argument and its result) and the latest generateCssSelector call on that tree
    parseCall, selectorCall,
    \* ResizableHandle: per handle, whether it is mounted, its isDragging state,
    \* whether its window listeners are attached and whether onResizeEnd was
    \* called since its last mouse-down; the sizes onResize set; App's isResizing;
    \* document.body.style
    handle, sizes, isResizing, bodyStyle

appVars ==
    <<urlInput, loadedUrl, isLoadingUrl, rawHtml, selectedId, hoveredId,
      isInspectMode, scrapeTargets, targetName, targetDescription,
      generatedScript, scrapedResult, isScraping, currentSelector>>

\* The AI insight of the selected element.
insightVars == <<aiAnalysis, isAnalyzing, analysis>>

envVars == <<apiKey, fetches, alerts, generation, serviceCalls, insightVars>>

viewerVars ==
    <<iframeLoaded, frameDoc, listeners, timers, onloadPending,
      selectedRect, hoveredRect, lastClick>>

parserVars == <<parseCall, selectorCall>>

handleVars == <<handle, sizes, isResizing, bodyStyle>>

\* State outside App, its services and the viewer.
componentVars == <<parserVars, handleVars>>

vars == <<appVars, envVars, viewerVars, componentVars>>

\* scrapedResult: null, the value extractData returned, or {error, details}.
NoResult == [kind |-> "null", error |-> NULL, details |-> NULL]

ExtractedData == [kind |-> "data", error |-> NULL, details |-> NULL]

\* A failure that leaves no structured value behind.
ExecutionFailureDropped(e) ==
    [kind |-> "null", error |-> NULL, details |-> NULL]

ExecutionFailure(e) ==
    [kind |-> "failure", error |-> "Failed to execute script", details |-> e]

NoGeneration ==
    [count |-> 0, pending |-> FALSE, chunks |-> <<>>, throws |-> FALSE,
     yielded |-> <<>>]

\* No explanation requested yet; element is the argument of analyzeElementStream.
NoAnalysis ==
    [count |-> 0, pending |-> FALSE, chunks |-> <<>>, throws |-> FALSE,
     yielded |-> <<>>, element |-> NoNode]

\* const { root, injectedHtml } = useMemo(...)
root == Parsed[rawHtml].root

selectedNode ==
    IF selectedId = NULL THEN NoNode ELSE findNode(root, selectedId)

\* The ids querySelector can resolve in the iframe's document; contentDocument is
\* null once the frame has navigated to a page of another origin.
FrameIds(doc) == IF doc = "navigated" THEN {} ELSE DocIds[doc]

\* The element of the rendered page with this id is a link.
IsLink(doc, id) ==
    /\ doc # "navigated"
    /\ id \in DocIds[doc]
    /\ findNode(Parsed[doc].root, id).tag = "a"

(***************************************************************************)
(* App: currentSelector (useMemo over [selectedId])                        *)
(***************************************************************************)
UnableToGenerate == "Unable to generate unique selector"

\* finder(element, ...) of @medv/finder: a selector for the element, or a throw.
FinderOutcomes == {"selector", "throws"}

ComputeSelector(id, doc, finder) ==
    IF id = NULL THEN ""
    ELSE IF doc = "navigated" THEN ""
    ELSE IF id \in FrameIds(doc)
         THEN IF finder = "throws" THEN UnableToGenerate ELSE "finder:" \o id
         ELSE ""

(***************************************************************************)
(* Overlay: the effect over [targetId, iframeRef, isActive, scrollTrigger] *)
(***************************************************************************)
Measure(targetId, doc) ==
    IF targetId # NULL /\ targetId \in FrameIds(doc) THEN targetId ELSE NULL

SelectedIsActive(sel) == sel # NULL

\* A hover overlay that is active whenever an element is hovered.
HoveredIsActiveWhenPresent(hov, sel) == hov # NULL

HoveredIsActive(hov, sel) == hov # NULL /\ hov # sel

\* Overlays that stay mounted in both modes.
OverlayEffectsInBothModes(scrolled) ==
    /\ selectedRect' =
          IF selectedId' # selectedId \/ scrolled
          THEN Measure(selectedId', frameDoc)
          ELSE selectedRect
    /\ hoveredRect' =
          IF \/ hoveredId' # hoveredId
             \/ HoveredIsActive(hoveredId', selectedId')
                  # HoveredIsActive(hoveredId, selectedId)
             \/ scrolled
          THEN Measure(hoveredId', frameDoc)
          ELSE hoveredRect

\* The overlays are mounted while isInspectMode; a mounting overlay starts with a
\* null rect and runs its effect.  Overlay effects run before the effects of
\* VisualViewer, their parent: they query the document as it was before the
\* commit's content write.
OverlayEffects(scrolled) ==
    /\ selectedRect' =
          IF ~isInspectMode' THEN NULL
          ELSE IF ~isInspectMode \/ selectedId' # selectedId \/ scrolled
               THEN Measure(selectedId', frameDoc)
               ELSE selectedRect
    /\ hoveredRect' =
          IF ~isInspectMode' THEN NULL
          ELSE IF \/ ~isInspectMode
                  \/ hoveredId' # hoveredId
                  \/ HoveredIsActive(hoveredId', selectedId')
                       # HoveredIsActive(hoveredId, selectedId)
                  \/ scrolled
               THEN Measure(hoveredId', frameDoc)
               ELSE hoveredRect

\* if (!rect || !isActive) return null: what a mounted overlay paints.  An
\* overlay that is not mounted has no rect.
SelectedOverlayDrawn == selectedRect # NULL /\ SelectedIsActive(selectedId)

HoveredOverlayDrawn ==
    hoveredRect # NULL /\ HoveredIsActive(hoveredId, selectedId)

(***************************************************************************)
(* VisualViewer: the content-write effect and the listener effect          *)
(***************************************************************************)
ModeName(inspect) == IF inspect THEN "inspect" ELSE "interact"

\* loaded, pendingTimers, pendingOnload: iframeLoaded, timers and onloadPending as
\* the event being handled left them.  When html, baseUrl or isInspectMode changed
\* and the frame's document is reachable, the page is rewritten, iframeLoaded is
\* reset, a timeout is scheduled and the listener effect's cleanup has run.
\* Otherwise the listener effect attaches when iframeLoaded became true.
ViewerEffects(loaded, pendingTimers, pendingOnload) ==
    IF /\ \/ rawHtml' # rawHtml
          \/ loadedUrl' # loadedUrl
          \/ isInspectMode' # isInspectMode
       /\ frameDoc # "navigated"
    THEN /\ frameDoc' = rawHtml'
         /\ iframeLoaded' = FALSE
         /\ listeners' = "none"
         /\ timers' = pendingTimers + 1
         /\ onloadPending' = TRUE
    ELSE /\ frameDoc' = frameDoc
         /\ iframeLoaded' = loaded
         /\ listeners' =
               IF loaded # iframeLoaded \/ isInspectMode' # isInspectMode
               THEN IF loaded /\ frameDoc # "navigated"
                    THEN ModeName(isInspectMode') ELSE "none"
               ELSE listeners
         /\ timers' = pendingTimers
         /\ onloadPending' = pendingOnload

\* One React commit after the App state named by the primed variables was set.
Commit(finder, scrolled, loaded, pendingTimers, pendingOnload) ==
    /\ currentSelector' =
          IF selectedId' # selectedId
          THEN ComputeSelector(selectedId', frameDoc, finder)
          ELSE currentSelector
    /\ OverlayEffects(scrolled)
    /\ ViewerEffects(loaded, pendingTimers, pendingOnload)

\* A commit in which only App state outside the viewer's props changed.
CommitQuiet == Commit("selector", FALSE, iframeLoaded, timers, onloadPending)

(***************************************************************************)
(* Initial state: the first commit of App has run its effects              *)
(***************************************************************************)
(***************************************************************************)
(* components/ResizableHandle                                              *)
(***************************************************************************)
\* The three handles App renders.
Handles == {"left", "right", "output"}

Orientation(h) == IF h = "output" THEN "horizontal" ELSE "vertical"

Inverse(h) == h # "left"

\* min and max: the defaults, and the values App passes for the output panel.
Min(h) == 100

Max(h) == IF h = "output" THEN 800 ELSE 1200

\* window.innerWidth and window.innerHeight.
InnerWidth == 1280

InnerHeight == 800

\* e.clientX / e.clientY of the mouse-move events.
PointerPositions == {40, 640, 1270}

\* useState(false), no listener, no session; the panel sizes before any drag.
InitHandles ==
    /\ handle = [h \in Handles |->
                    [mounted |-> TRUE, isDragging |-> FALSE,
                     listening |-> FALSE, endSignalled |-> FALSE]]
    /\ sizes = [h \in Handles |->
                   IF h = "left" THEN (InnerWidth * 45) \div 100
                   ELSE IF h = "right" THEN 400 ELSE 300]
    /\ isResizing = FALSE
    /\ bodyStyle = [cursor |-> "", userSelect |-> ""]

\* handleMouseMove: the value passed to onResize.
NewValue(h, position) ==
    LET raw == IF Orientation(h) = "vertical"
               THEN (IF Inverse(h) THEN InnerWidth - position ELSE position)
               ELSE (IF Inverse(h) THEN InnerHeight - position ELSE position)
        atLeastMin == IF raw < Min(h) THEN Min(h) ELSE raw
    IN  IF atLeastMin > Max(h) THEN Max(h) ELSE atLeastMin

\* App and VisualViewer after the first render.
InitApp ==
    /\ urlInput = ""
    /\ loadedUrl = ""
    /\ isLoadingUrl = FALSE
    /\ rawHtml = "EXAMPLE_HTML"
    /\ selectedId = NULL
    /\ hoveredId = NULL
    /\ isInspectMode = TRUE
    /\ scrapeTargets = <<>>
    /\ targetName = ""
    /\ targetDescription = ""
    /\ generatedScript = <<>>
    /\ scrapedResult = NoResult
    /\ isScraping = FALSE
    /\ currentSelector = ""
    /\ apiKey \in BOOLEAN
    /\ fetches = <<>>
    /\ alerts = 0
    /\ generation = NoGeneration
    /\ serviceCalls = 0
    /\ aiAnalysis = <<>>
    /\ isAnalyzing = FALSE
    /\ analysis = NoAnalysis
    /\ iframeLoaded = FALSE
    /\ frameDoc = "EXAMPLE_HTML"
    /\ listeners = "none"
    /\ timers = 1
    /\ onloadPending = TRUE
    /\ selectedRect = NULL
    /\ hoveredRect = NULL
    /\ lastClick = "none"

Init ==
    /\ InitApp
    /\ InitHandles
    /\ parseCall = NoParseCall
    /\ selectorCall = NoSelectorCall

(***************************************************************************)
(* App: URL loading                                                        *)
(***************************************************************************)
\* onChange of the URL input.
SetUrlInput(url) ==
    /\ url # urlInput
    /\ urlInput' = url
    /\ UNCHANGED <<loadedUrl, isLoadingUrl, rawHtml, selectedId, hoveredId,
                   isInspectMode, scrapeTargets, targetName, targetDescription,
                   generatedScript, scrapedResult, isScraping>>
    /\ UNCHANGED envVars
    /\ UNCHANGED componentVars
    /\ UNCHANGED lastClick
    /\ CommitQuiet

\* handleUrlSubmit up to its await, run by the form's onSubmit.  The handler's only
\* guard is the empty input: the submit button is disabled while isLoadingUrl, the
\* form and its handler are not.
HandleUrlSubmit ==
    /\ urlInput # ""
    /\ Len(fetches) < MaxSubmits
    /\ isLoadingUrl' = TRUE
    /\ fetches' = Append(fetches, [url |-> urlInput, status |-> "pending"])
    /\ UNCHANGED <<urlInput, loadedUrl, rawHtml, selectedId, hoveredId,
                   isInspectMode, scrapeTargets, targetName, targetDescription,
                   generatedScript, scrapedResult, isScraping>>
    /\ UNCHANGED componentVars
    /\ UNCHANGED <<apiKey, serviceCalls, insightVars, alerts, generation>>
    /\ UNCHANGED lastClick
    /\ CommitQuiet

\* A load that replaces the page and keeps the rule queue.
ApplyLoadedContentKeepingTargets(url) ==
    /\ rawHtml' = Served(url)
    /\ loadedUrl' = url
    /\ generatedScript' = <<>>
    /\ scrapedResult' = NoResult
    /\ selectedId' = NULL
    /\ UNCHANGED <<scrapeTargets, hoveredId>>

\* The try block after the await: the state a fetched page replaces.
ApplyLoadedContent(url) ==
    /\ rawHtml' = Served(url)
    /\ loadedUrl' = url
    /\ scrapeTargets' = <<>>
    /\ generatedScript' = <<>>
    /\ scrapedResult' = NoResult
    /\ selectedId' = NULL
    /\ UNCHANGED hoveredId

\* fetchUrlContent of the k-th call returned the page: try block, then finally.
FetchResolved(k) ==
    /\ k \in 1..Len(fetches)
    /\ fetches[k].status = "pending"
    /\ timers < MaxTimers
    /\ fetches' = [fetches EXCEPT ![k].status = "resolved"]
    /\ ApplyLoadedContent(fetches[k].url)
    /\ isLoadingUrl' = FALSE
    /\ UNCHANGED <<urlInput, isInspectMode, targetName, targetDescription,
                   isScraping>>
    /\ UNCHANGED componentVars
    /\ UNCHANGED <<apiKey, serviceCalls, insightVars, alerts, generation>>
    /\ UNCHANGED lastClick
    /\ CommitQuiet

\* A failed load that drops the rule queue.
DropTargetsOnFailure ==
    /\ scrapeTargets' = <<>>
    /\ UNCHANGED <<rawHtml, loadedUrl, generatedScript, scrapedResult,
                   selectedId, hoveredId>>

\* The catch block: what a failed load does to the content state.
KeepContentOnFailure ==
    UNCHANGED <<rawHtml, loadedUrl, scrapeTargets, generatedScript,
                scrapedResult, selectedId, hoveredId>>

\* fetchUrlContent of the k-th call threw (a non-ok status or a network error):
\* catch block, then finally.
FetchRejected(k) ==
    /\ k \in 1..Len(fetches)
    /\ fetches[k].status = "pending"
    /\ fetches' = [fetches EXCEPT ![k].status = "rejected"]
    /\ alerts' = alerts + 1
    /\ KeepContentOnFailure
    /\ isLoadingUrl' = FALSE
    /\ UNCHANGED <<urlInput, isInspectMode, targetName, targetDescription,
                   isScraping>>
    /\ UNCHANGED componentVars
    /\ UNCHANGED <<apiKey, serviceCalls, insightVars, generation>>
    /\ UNCHANGED lastClick
    /\ CommitQuiet

(***************************************************************************)
(* App: the Interact / Inspect toggle                                      *)
(***************************************************************************)
\* A toggle that also forgets the hover.
SetIsInspectModeForgettingHover(inspect) ==
    /\ inspect # isInspectMode
    /\ timers < MaxTimers
    /\ isInspectMode' = inspect
    /\ hoveredId' = NULL
    /\ UNCHANGED <<urlInput, loadedUrl, isLoadingUrl, rawHtml, selectedId,
                   scrapeTargets, targetName, targetDescription,
                   generatedScript, scrapedResult, isScraping>>
    /\ UNCHANGED envVars
    /\ UNCHANGED componentVars
    /\ UNCHANGED lastClick
    /\ CommitQuiet

\* onClick of the Interact and Inspect buttons.
SetIsInspectMode(inspect) ==
    /\ inspect # isInspectMode
    /\ timers < MaxTimers
    /\ isInspectMode' = inspect
    /\ UNCHANGED <<urlInput, loadedUrl, isLoadingUrl, rawHtml, selectedId,
                   hoveredId, scrapeTargets, targetName, targetDescription,
                   generatedScript, scrapedResult, isScraping>>
    /\ UNCHANGED envVars
    /\ UNCHANGED componentVars
    /\ UNCHANGED lastClick
    /\ CommitQuiet

(***************************************************************************)
(* CodeViewer: the rows of the tree view                                   *)
(***************************************************************************)
\* onSelect(id) / onHover(id) as App's setSelectedId / setHoveredId.
Select(id, finder) ==
    /\ selectedId' = id
    /\ UNCHANGED <<urlInput, loadedUrl, isLoadingUrl, rawHtml, hoveredId,
                   isInspectMode, scrapeTargets, targetName, targetDescription,
                   generatedScript, scrapedResult, isScraping>>
    /\ UNCHANGED envVars
    /\ UNCHANGED componentVars
    /\ Commit(finder, FALSE, iframeLoaded, timers, onloadPending)

Hover(id) ==
    /\ hoveredId' = id
    /\ UNCHANGED <<urlInput, loadedUrl, isLoadingUrl, rawHtml, selectedId,
                   isInspectMode, scrapeTargets, targetName, targetDescription,
                   generatedScript, scrapedResult, isScraping>>
    /\ UNCHANGED envVars
    /\ UNCHANGED componentVars
    /\ CommitQuiet

\* CodeViewer.handleClick on the row of node id.
TreeClick(id, finder) ==
    /\ id \in TreeIds[rawHtml] \cap Pointable
    /\ id # selectedId
    /\ Select(id, finder)
    /\ UNCHANGED lastClick

\* CodeViewer.handleMouseEnter on the row of node id.
TreeMouseEnter(id) ==
    /\ id \in TreeIds[rawHtml] \cap Pointable
    /\ id # hoveredId
    /\ Hover(id)
    /\ UNCHANGED lastClick

(***************************************************************************)
(* VisualViewer: events of the iframe                                      *)
(***************************************************************************)
\* What the pointer can be over in the rendered page.
FrameTargets == (FrameIds(frameDoc) \cap Pointable) \cup {NoTarget}

\* A lookup that falls back to the first element of the page.
ClosestOrFirstElement(target) == IF target = NoTarget THEN "root-0" ELSE target

\* target.closest('[data-inspector-id]'): every element the parser saw carries
\* its own id; <html> and <body> have none and no such ancestor.
Closest(target) == IF target = NoTarget THEN NULL ELSE target

\* handleMouseOver, attached by the listener effect.
HandleMouseOver(target) ==
    /\ listeners = "inspect"
    /\ target \in FrameTargets
    /\ Closest(target) # hoveredId
    /\ Hover(Closest(target))
    /\ UNCHANGED lastClick

\* handleMouseLeave.
HandleMouseLeave ==
    /\ listeners = "inspect"
    /\ hoveredId # NULL
    /\ Hover(NULL)
    /\ UNCHANGED lastClick

\* A handler the listener effect attached while isInspectMode was false returns at
\* its first line: the event changes nothing.
HandleIgnoredPointerEvent ==
    /\ listeners = "interact"
    /\ UNCHANGED vars

\* handleClick in Inspect mode: preventDefault, then onSelect of the closest id.
HandleClick(target, finder) ==
    /\ listeners = "inspect"
    /\ target \in FrameTargets
    /\ lastClick' = "prevented"
    /\ IF Closest(target) # NULL
       THEN Select(Closest(target), finder)
       ELSE /\ UNCHANGED appVars
            /\ UNCHANGED envVars
            /\ UNCHANGED componentVars
            /\ UNCHANGED <<iframeLoaded, frameDoc, listeners, timers,
                           onloadPending, selectedRect, hoveredRect>>

\* A click no handler prevents (no listener attached, or the listener returns
\* early): the page's default action runs, and a link navigates the frame away.
ClickPassesThrough(target) ==
    /\ frameDoc # "navigated"
    /\ listeners # "inspect"
    /\ target \in FrameTargets
    /\ lastClick' = "default"
    /\ IF IsLink(frameDoc, target)
       THEN /\ frameDoc' = "navigated"
            /\ listeners' = "none"
            /\ onloadPending' = TRUE
       ELSE UNCHANGED <<frameDoc, listeners, onloadPending>>
    /\ UNCHANGED <<iframeLoaded, timers, selectedRect, hoveredRect>>
    /\ UNCHANGED appVars
    /\ UNCHANGED envVars
    /\ UNCHANGED componentVars

\* handleScroll (scroll and resize of the frame's window): setScrollTrigger.
HandleScroll ==
    /\ listeners # "none"
    /\ UNCHANGED <<urlInput, loadedUrl, isLoadingUrl, rawHtml, selectedId,
                   hoveredId, isInspectMode, scrapeTargets, targetName,
                   targetDescription, generatedScript, scrapedResult, isScraping>>
    /\ UNCHANGED envVars
    /\ UNCHANGED componentVars
    /\ UNCHANGED lastClick
    /\ Commit("selector", TRUE, iframeLoaded, timers, onloadPending)

\* iframe.onload = () => setIframeLoaded(true).
IframeOnload ==
    /\ onloadPending
    /\ UNCHANGED <<urlInput, loadedUrl, isLoadingUrl, rawHtml, selectedId,
                   hoveredId, isInspectMode, scrapeTargets, targetName,
                   targetDescription, generatedScript, scrapedResult, isScraping>>
    /\ UNCHANGED envVars
    /\ UNCHANGED componentVars
    /\ UNCHANGED lastClick
    /\ Commit("selector", FALSE, TRUE, timers, FALSE)

\* setTimeout(() => setIframeLoaded(true), 100) of some earlier write.
TimeoutFires ==
    /\ timers > 0
    /\ UNCHANGED <<urlInput, loadedUrl, isLoadingUrl, rawHtml, selectedId,
                   hoveredId, isInspectMode, scrapeTargets, targetName,
                   targetDescription, generatedScript, scrapedResult, isScraping>>
    /\ UNCHANGED envVars
    /\ UNCHANGED componentVars
    /\ UNCHANGED lastClick
    /\ Commit("selector", FALSE, TRUE, timers - 1, onloadPending)

(***************************************************************************)
(* App: the scrape-target set                                              *)
(***************************************************************************)
\* onChange of the Field Name input (disabled while nothing is selected).
SetTargetName(name) ==
    /\ selectedId # NULL
    /\ name # targetName
    /\ targetName' = name
    /\ UNCHANGED <<urlInput, loadedUrl, isLoadingUrl, rawHtml, selectedId,
                   hoveredId, isInspectMode, scrapeTargets, targetDescription,
                   generatedScript, scrapedResult, isScraping>>
    /\ UNCHANGED envVars
    /\ UNCHANGED componentVars
    /\ UNCHANGED lastClick
    /\ CommitQuiet

\* onChange of the Instruction textarea (disabled while nothing is selected).
SetTargetDescription(text) ==
    /\ selectedId # NULL
    /\ text # targetDescription
    /\ targetDescription' = text
    /\ UNCHANGED <<urlInput, loadedUrl, isLoadingUrl, rawHtml, selectedId,
                   hoveredId, isInspectMode, scrapeTargets, targetName,
                   generatedScript, scrapedResult, isScraping>>
    /\ UNCHANGED envVars
    /\ UNCHANGED componentVars
    /\ UNCHANGED lastClick
    /\ CommitQuiet

PreviewLength == 30

DefaultDescription == "Get text content"

\* selectedNode?.textContent?.substring(0, 30) || 'Element'
Preview ==
    LET text == Substring0(selectedNode.textContent, PreviewLength)
    IN  IF text # <<>> THEN text ELSE ElementLabel

\* An entry that takes the instruction as entered, empty or not.
NewTargetAsEntered ==
    [id |-> selectedId,
     selector |-> currentSelector,
     name |-> targetName,
     description |-> targetDescription,
     exampleValue |-> Preview]

\* The entry handleAddTarget builds.
NewTarget ==
    [id |-> selectedId,
     selector |-> currentSelector,
     name |-> targetName,
     description |->
        IF targetDescription # "" THEN targetDescription ELSE DefaultDescription,
     exampleValue |-> Preview]

\* if (!selectedId || !targetName) return;
AddTargetAllowed == selectedId # NULL /\ targetName # ""

HandleAddTarget ==
    /\ Len(scrapeTargets) < MaxTargets
    /\ IF AddTargetAllowed
       THEN /\ scrapeTargets' = Append(scrapeTargets, NewTarget)
            /\ targetName' = ""
            /\ targetDescription' = ""
       ELSE UNCHANGED <<scrapeTargets, targetName, targetDescription>>
    /\ UNCHANGED <<urlInput, loadedUrl, isLoadingUrl, rawHtml, selectedId,
                   hoveredId, isInspectMode, generatedScript, scrapedResult,
                   isScraping>>
    /\ UNCHANGED envVars
    /\ UNCHANGED componentVars
    /\ UNCHANGED lastClick
    /\ CommitQuiet

\* A filter that counts the rows from 1.
RemoveAtCountingFromOne(targets, index) ==
    LET keep == {i \in 1..Len(targets) : i # index}
        pos(j) == CHOOSE i \in keep : Cardinality({m \in keep : m < i}) = j - 1
    IN  [j \in 1..Cardinality(keep) |-> targets[pos(j)]]

\* prev.filter((_, i) => i !== index), index counted from 0.
RemoveAt(targets, index) ==
    LET keep == {i \in 1..Len(targets) : i - 1 # index}
        pos(j) == CHOOSE i \in keep : Cardinality({m \in keep : m < i}) = j - 1
    IN  [j \in 1..Cardinality(keep) |-> targets[pos(j)]]

\* The trash button of row index.
HandleRemoveTarget(index) ==
    /\ index \in 0..(Len(scrapeTargets) - 1)
    /\ scrapeTargets' = RemoveAt(scrapeTargets, index)
    /\ UNCHANGED <<urlInput, loadedUrl, isLoadingUrl, rawHtml, selectedId,
                   hoveredId, isInspectMode, targetName, targetDescription,
                   generatedScript, scrapedResult, isScraping>>
    /\ UNCHANGED envVars
    /\ UNCHANGED componentVars
    /\ UNCHANGED lastClick
    /\ CommitQuiet

(***************************************************************************)
(* geminiService: generateScrapingScriptStream, and App's consumer loop    *)
(***************************************************************************)
StartsWith(s, prefix) ==
    Len(s) >= Len(prefix) /\ SubSeq(s, 1, Len(prefix)) = prefix

RECURSIVE StripFences(_)
\* text.replace(/```javascript|```/g, '')
StripFences(s) ==
    IF s = <<>> THEN <<>>
    ELSE IF StartsWith(s, FenceJavascript)
    THEN StripFences(SubSeq(s, Len(FenceJavascript) + 1, Len(s)))
    ELSE IF StartsWith(s, Fence)
    THEN StripFences(SubSeq(s, Len(Fence) + 1, Len(s)))
    ELSE <<Head(s)>> \o StripFences(Tail(s))

\* setGeneratedScript(prev => prev + chunk)
AppendChunk(script, chunk) == script \o chunk

\* A stream that never looks at the key.
HasApiKeyUnchecked == TRUE

\* const apiKey = process.env.API_KEY; if (!apiKey) ...
HasApiKey == apiKey

\* handleGenerateScraper up to its first await.  The button is rendered while there
\* are targets and disabled while isScraping.  Without an API key the generator
\* yields its one chunk and returns before any other event is handled.
HandleGenerateScraper(response) ==
    /\ scrapeTargets # <<>>
    /\ ~isScraping
    /\ generation.count < MaxGenerations
    /\ IF ~HasApiKey
       THEN /\ generatedScript' = AppendChunk(<<>>, NoApiKeyChunk)
            /\ isScraping' = FALSE
            /\ UNCHANGED serviceCalls
            /\ generation' =
                  [count |-> generation.count + 1, pending |-> FALSE,
                   chunks |-> <<>>, throws |-> FALSE,
                   yielded |-> <<NoApiKeyChunk>>]
       ELSE /\ generatedScript' = <<>>
            /\ isScraping' = TRUE
            /\ serviceCalls' = serviceCalls + 1
            /\ generation' =
                  [count |-> generation.count + 1, pending |-> TRUE,
                   chunks |-> response.chunks, throws |-> response.throws,
                   yielded |-> <<>>]
    /\ UNCHANGED <<urlInput, loadedUrl, isLoadingUrl, rawHtml, selectedId,
                   hoveredId, isInspectMode, scrapeTargets, targetName,
                   targetDescription, scrapedResult>>
    /\ UNCHANGED componentVars
    /\ UNCHANGED <<apiKey, insightVars, fetches, alerts>>
    /\ UNCHANGED lastClick
    /\ CommitQuiet

\* One chunk of the response stream: cleaned, yielded when non-empty, appended.
StreamChunk ==
    /\ generation.pending
    /\ generation.chunks # <<>>
    /\ LET text == StripFences(Head(generation.chunks)) IN
       /\ generatedScript' =
             IF text # <<>> THEN AppendChunk(generatedScript, text)
             ELSE generatedScript
       /\ generation' =
             [generation EXCEPT
                !.chunks = Tail(generation.chunks),
                !.yielded = IF text # <<>> THEN Append(@, text) ELSE @]
    /\ UNCHANGED <<urlInput, loadedUrl, isLoadingUrl, rawHtml, selectedId,
                   hoveredId, isInspectMode, scrapeTargets, targetName,
                   targetDescription, scrapedResult, isScraping>>
    /\ UNCHANGED componentVars
    /\ UNCHANGED <<apiKey, serviceCalls, insightVars, fetches, alerts>>
    /\ UNCHANGED lastClick
    /\ CommitQuiet

\* A generator without the catch: the throw leaves the consumer's loop and the
\* handler before isScraping is cleared.
StreamEndsUncaught ==
    /\ generation.pending
    /\ generation.chunks = <<>>
    /\ generation' = [generation EXCEPT !.pending = FALSE]
    /\ isScraping' = (generation.throws /\ isScraping)
    /\ UNCHANGED <<urlInput, loadedUrl, isLoadingUrl, rawHtml, selectedId,
                   hoveredId, isInspectMode, scrapeTargets, targetName,
                   targetDescription, generatedScript, scrapedResult>>
    /\ UNCHANGED componentVars
    /\ UNCHANGED <<apiKey, serviceCalls, insightVars, fetches, alerts>>
    /\ UNCHANGED lastClick
    /\ CommitQuiet

\* The response stream ends or throws: the catch block yields its chunk, the
\* generator returns and the consumer clears isScraping.
StreamEnds ==
    /\ generation.pending
    /\ generation.chunks = <<>>
    /\ generatedScript' =
          IF generation.throws
          THEN AppendChunk(generatedScript, GenerationErrorChunk)
          ELSE generatedScript
    /\ generation' =
          [generation EXCEPT
             !.pending = FALSE,
             !.yielded = IF generation.throws
                         THEN Append(@, GenerationErrorChunk) ELSE @]
    /\ isScraping' = FALSE
    /\ UNCHANGED <<urlInput, loadedUrl, isLoadingUrl, rawHtml, selectedId,
                   hoveredId, isInspectMode, scrapeTargets, targetName,
                   targetDescription, scrapedResult>>
    /\ UNCHANGED componentVars
    /\ UNCHANGED <<apiKey, serviceCalls, insightVars, fetches, alerts>>
    /\ UNCHANGED lastClick
    /\ CommitQuiet

(***************************************************************************)
(* geminiService: analyzeElementStream, and the loop of handleAiAnalyze    *)
(***************************************************************************)
\* Explanations requested in one run.
MaxAnalyses == 1

\* What the AI service sends for one explanation: the texts of its chunks (an
\* empty text is a chunk without text), and whether the call or the stream throws
\* after them.
InsightResponses ==
    { [chunks |-> <<InsightOne, <<>>, InsightTwo>>, throws |-> FALSE],
      [chunks |-> <<InsightOne>>, throws |-> TRUE],
      [chunks |-> <<>>, throws |-> TRUE] }

\* handleAiAnalyze up to its first await.  The button is disabled while
\* isAnalyzing and while nothing is selected.  Without an API key the generator
\* yields its one chunk and returns before any other event is handled.
HandleAiAnalyze(response) ==
    /\ selectedId # NULL
    /\ ~isAnalyzing
    /\ selectedNode # NoNode
    /\ analysis.count < MaxAnalyses
    /\ IF ~HasApiKey
       THEN /\ aiAnalysis' = AppendChunk(<<>>, NoApiKeyNotice)
            /\ isAnalyzing' = FALSE
            /\ UNCHANGED serviceCalls
            /\ analysis' =
                  [count |-> analysis.count + 1, pending |-> FALSE,
                   chunks |-> <<>>, throws |-> FALSE,
                   yielded |-> <<NoApiKeyNotice>>, element |-> selectedNode]
       ELSE /\ aiAnalysis' = <<>>
            /\ isAnalyzing' = TRUE
            /\ serviceCalls' = serviceCalls + 1
            /\ analysis' =
                  [count |-> analysis.count + 1, pending |-> TRUE,
                   chunks |-> response.chunks, throws |-> response.throws,
                   yielded |-> <<>>, element |-> selectedNode]
    /\ UNCHANGED <<urlInput, loadedUrl, isLoadingUrl, rawHtml, selectedId,
                   hoveredId, isInspectMode, scrapeTargets, targetName,
                   targetDescription, generatedScript, scrapedResult,
                   isScraping>>
    /\ UNCHANGED componentVars
    /\ UNCHANGED <<apiKey, fetches, alerts, generation>>
    /\ UNCHANGED lastClick
    /\ CommitQuiet

\* One chunk of the response stream: if (chunk.text) yield chunk.text.
AnalysisChunk ==
    /\ analysis.pending
    /\ analysis.chunks # <<>>
    /\ LET text == Head(analysis.chunks) IN
       /\ aiAnalysis' =
             IF text # <<>> THEN AppendChunk(aiAnalysis, text) ELSE aiAnalysis
       /\ analysis' =
             [analysis EXCEPT
                !.chunks = Tail(analysis.chunks),
                !.yielded = IF text # <<>> THEN Append(@, text) ELSE @]
    /\ UNCHANGED <<urlInput, loadedUrl, isLoadingUrl, rawHtml, selectedId,
                   hoveredId, isInspectMode, scrapeTargets, targetName,
                   targetDescription, generatedScript, scrapedResult,
                   isScraping>>
    /\ UNCHANGED componentVars
    /\ UNCHANGED <<apiKey, fetches, alerts, generation, serviceCalls,
                   isAnalyzing>>
    /\ UNCHANGED lastClick
    /\ CommitQuiet

\* The response stream ends or throws: the catch block yields its chunk, the
\* generator returns and the consumer clears isAnalyzing.
AnalysisEnds ==
    /\ analysis.pending
    /\ analysis.chunks = <<>>
    /\ aiAnalysis' =
          IF analysis.throws
          THEN AppendChunk(aiAnalysis, AnalysisErrorChunk)
          ELSE aiAnalysis
    /\ analysis' =
          [analysis EXCEPT
             !.pending = FALSE,
             !.yielded = IF analysis.throws
                         THEN Append(@, AnalysisErrorChunk) ELSE @]
    /\ isAnalyzing' = FALSE
    /\ UNCHANGED <<urlInput, loadedUrl, isLoadingUrl, rawHtml, selectedId,
                   hoveredId, isInspectMode, scrapeTargets, targetName,
                   targetDescription, generatedScript, scrapedResult,
                   isScraping>>
    /\ UNCHANGED componentVars
    /\ UNCHANGED <<apiKey, fetches, alerts, generation, serviceCalls>>
    /\ UNCHANGED lastClick
    /\ CommitQuiet

(***************************************************************************)
(* App: running the generated script                                       *)
(***************************************************************************)
\* new Function(...) and fn(doc): the value extractData returns, or a throw (a
\* syntax error of the source, an exception of the function).
RunOutcomes == {"returns", "throws"}

HandleRunScraper(outcome) ==
    /\ generatedScript # <<>>
    /\ scrapedResult' =
          IF outcome = "returns" THEN ExtractedData
          ELSE ExecutionFailure("Error")
    /\ UNCHANGED <<urlInput, loadedUrl, isLoadingUrl, rawHtml, selectedId,
                   hoveredId, isInspectMode, scrapeTargets, targetName,
                   targetDescription, generatedScript, isScraping>>
    /\ UNCHANGED envVars
    /\ UNCHANGED componentVars
    /\ UNCHANGED lastClick
    /\ CommitQuiet

(***************************************************************************)
(* utils/domParser called on its own                                       *)
(***************************************************************************)
\* parseHtmlContent(html) returns.
ParseHtmlContent ==
    /\ parseCall.state = "called"
    /\ parseCall' =
          [state |-> "returned",
           html |-> parseCall.html,
           root |-> parseHtmlContent(parseCall.html).root,
           injectedHtml |-> parseHtmlContent(parseCall.html).injectedHtml]
    /\ selectorCall' = NoSelectorCall
    /\ UNCHANGED <<appVars, envVars, viewerVars, handleVars>>

\* generateCssSelector(root, targetId) on the tree of the latest parse.
GenerateCssSelector(targetId) ==
    /\ parseCall.state = "returned"
    /\ targetId \in NodeIds(parseCall.root) \cup {NoSuchId}
    /\ selectorCall' =
          [targetId |-> targetId,
           selector |-> generateCssSelector(parseCall.root, targetId)]
    /\ UNCHANGED parseCall
    /\ UNCHANGED <<appVars, envVars, viewerVars, handleVars>>

(***************************************************************************)
(* components/ResizableHandle: the drag session                            *)
(***************************************************************************)
\* handleMouseDown on the handle, then the effect that adds the window
\* listeners.  The mouse has one button: no handle is being dragged.
HandleMouseDown(h) ==
    /\ handle[h].mounted
    /\ \A g \in Handles : ~handle[g].isDragging
    /\ handle' = [handle EXCEPT ![h] =
                     [mounted |-> TRUE, isDragging |-> TRUE,
                      listening |-> TRUE, endSignalled |-> FALSE]]
    /\ isResizing' = TRUE
    /\ bodyStyle' =
          [cursor |-> IF Orientation(h) = "vertical"
                      THEN "col-resize" ELSE "row-resize",
           userSelect |-> "none"]
    /\ UNCHANGED sizes
    /\ UNCHANGED <<appVars, envVars, viewerVars, parserVars>>

\* handleMouseMove, the window's mousemove listener of a dragging handle.
WindowMouseMove(h, position) ==
    /\ handle[h].listening
    /\ sizes' = [sizes EXCEPT ![h] = NewValue(h, position)]
    /\ UNCHANGED <<handle, isResizing, bodyStyle>>
    /\ UNCHANGED <<appVars, envVars, viewerVars, parserVars>>

\* handleMouseUp, the window's mouseup listener of a dragging handle, then the
\* effect that removes the listeners.
WindowMouseUp(h) ==
    /\ handle[h].listening
    /\ IF handle[h].isDragging
       THEN /\ handle' = [handle EXCEPT ![h] =
                            [mounted |-> TRUE, isDragging |-> FALSE,
                             listening |-> FALSE, endSignalled |-> TRUE]]
            /\ isResizing' = FALSE
            /\ bodyStyle' = [cursor |-> "", userSelect |-> ""]
       ELSE UNCHANGED <<handle, isResizing, bodyStyle>>
    /\ UNCHANGED sizes
    /\ UNCHANGED <<appVars, envVars, viewerVars, parserVars>>

\* The handle's parent stops rendering it: the effect's cleanup removes the
\* window listeners and the component's state is discarded.  No handler runs.
HandleUnmounted(h) ==
    /\ handle[h].mounted
    /\ handle' = [handle EXCEPT ![h] =
                     [mounted |-> FALSE, isDragging |-> FALSE,
                      listening |-> FALSE, endSignalled |-> @.endSignalled]]
    /\ UNCHANGED <<sizes, isResizing, bodyStyle>>
    /\ UNCHANGED <<appVars, envVars, viewerVars, parserVars>>

\* The parent renders the handle again: a new instance.
HandleMounted(h) ==
    /\ ~handle[h].mounted
    /\ handle' = [handle EXCEPT ![h] =
                     [mounted |-> TRUE, isDragging |-> FALSE,
                      listening |-> FALSE, endSignalled |-> @.endSignalled]]
    /\ UNCHANGED <<sizes, isResizing, bodyStyle>>
    /\ UNCHANGED <<appVars, envVars, viewerVars, parserVars>>

(***************************************************************************)
(* Specifications                                                          *)
(***************************************************************************)
\* The URL bar and the fetches it starts.
LoadActions ==
    \/ \E url \in Urls \cup {""} : SetUrlInput(url)
    \/ HandleUrlSubmit
    \/ \E k \in 1..MaxSubmits : FetchResolved(k)
    \/ \E k \in 1..MaxSubmits : FetchRejected(k)

\* The load event and the timeouts of the iframe.
FrameLoadActions ==
    \/ IframeOnload
    \/ TimeoutFires

\* The pointer over the tree view.
TreeActions ==
    \/ \E id \in Pointable, finder \in FinderOutcomes : TreeClick(id, finder)
    \/ \E id \in Pointable : TreeMouseEnter(id)

\* The pointer over the rendered page.
PointerActions ==
    \/ \E target \in Pointable \cup {NoTarget} : HandleMouseOver(target)
    \/ HandleMouseLeave
    \/ HandleIgnoredPointerEvent
    \/ \E target \in Pointable \cup {NoTarget}, finder \in FinderOutcomes :
          HandleClick(target, finder)
    \/ \E target \in Pointable \cup {NoTarget} : ClickPassesThrough(target)
    \/ HandleScroll

ModeActions == \E inspect \in BOOLEAN : SetIsInspectMode(inspect)

\* The rule editor and the queue of rules.
TargetActions ==
    \/ \E name \in FieldNames \cup {""} : SetTargetName(name)
    \/ \E text \in Instructions \cup {""} : SetTargetDescription(text)
    \/ HandleAddTarget
    \/ \E index \in 0..(MaxTargets - 1) : HandleRemoveTarget(index)

\* Script generation and execution.
ScriptActions ==
    \/ \E response \in ServiceResponses : HandleGenerateScraper(response)
    \/ StreamChunk
    \/ StreamEnds
    \/ \E outcome \in RunOutcomes : HandleRunScraper(outcome)

\* The AI insight of the selected element.
InsightActions ==
    \/ \E response \in InsightResponses : HandleAiAnalyze(response)
    \/ AnalysisChunk
    \/ AnalysisEnds

\* The whole program.
Next ==
    \/ InsightActions
    \/ LoadActions
    \/ FrameLoadActions
    \/ TreeActions
    \/ PointerActions
    \/ ModeActions
    \/ TargetActions
    \/ ScriptActions

Spec == Init /\ [][Next]_vars

\* The program with the API key configured.
InitWithKey == Init /\ apiKey

\* Loading pages while the tree view is used.
NextLoad == LoadActions \/ FrameLoadActions \/ TreeActions

SpecLoad == InitWithKey /\ [][NextLoad]_vars

\* The live page, the tree view and the mode toggle, with a page being loaded.
NextViewer ==
    \/ SetUrlInput("b.test")
    \/ HandleUrlSubmit
    \/ \E k \in 1..MaxSubmits : FetchResolved(k)
    \/ \E k \in 1..MaxSubmits : FetchRejected(k)
    \/ FrameLoadActions
    \/ TreeActions
    \/ PointerActions
    \/ ModeActions

SpecViewer == InitWithKey /\ [][NextViewer]_vars

\* Building the rule queue from selections made in either view.
NextTargets ==
    \/ FrameLoadActions
    \/ \E id \in Pointable, finder \in FinderOutcomes : TreeClick(id, finder)
    \/ \E target \in Pointable \cup {NoTarget}, finder \in FinderOutcomes :
          HandleClick(target, finder)
    \/ \E target \in Pointable \cup {NoTarget} : ClickPassesThrough(target)
    \/ TargetActions

SpecTargets == InitWithKey /\ [][NextTargets]_vars

\* Generating and running a script while one page is loaded again and again.
NextScript ==
    \/ SetUrlInput("a.test")
    \/ HandleUrlSubmit
    \/ \E k \in 1..MaxSubmits : FetchResolved(k)
    \/ \E k \in 1..MaxSubmits : FetchRejected(k)
    \/ FrameLoadActions
    \/ TreeClick("root-0-0", "selector")
    \/ \E name \in FieldNames \cup {""} : SetTargetName(name)
    \/ HandleAddTarget
    \/ ScriptActions

SpecScript == Init /\ [][NextScript]_vars

(***************************************************************************)
(* Properties: loading pages                                               *)
(***************************************************************************)
\* The k-th fetch resolves in this step after a fetch issued later than it has
\* already resolved.
StaleResolution(k) ==
    /\ k \in 1..Len(fetches)
    /\ fetches[k].status = "pending"
    /\ fetches'[k].status = "resolved"
    /\ \E j \in (k + 1)..Len(fetches) : fetches[j].status = "resolved"

\* The state a page load replaces or resets.
loadedState ==
    <<rawHtml, loadedUrl, selectedId, scrapeTargets, generatedScript,
      scrapedResult>>

C2_SelectionWithinTree ==
    [][/\ selectedId' \in TreeIds[rawHtml'] \cup {NULL}
       /\ hoveredId' \in TreeIds[rawHtml'] \cup {NULL}
       /\ rawHtml' # rawHtml => selectedId' = NULL /\ hoveredId' = NULL]_vars

(***************************************************************************)
(* Properties: the highlights and the two modes                            *)
(***************************************************************************)
\* C3: a highlight is drawn only while its id resolves to an element of the
\* document the frame currently renders; for an id that no longer resolves the
\* highlight is absent.
C3_HighlightOnlyWhileResolved ==
    /\ SelectedOverlayDrawn => selectedId \in FrameIds(frameDoc)
    /\ HoveredOverlayDrawn => hoveredId \in FrameIds(frameDoc)

\* The App state other than the mode.
stateBesidesMode ==
    <<urlInput, loadedUrl, isLoadingUrl, rawHtml, selectedId, hoveredId,
      scrapeTargets, targetName, targetDescription, generatedScript,
      scrapedResult, isScraping, currentSelector>>

\* C6: a step that switches between Inspect and Interact, in either direction,
\* changes only the mode: selectedId, hoveredId and the rest of the App state
\* keep their values.
C6_ModeSwitchKeepsState ==
    [][isInspectMode' # isInspectMode => UNCHANGED stateBesidesMode]_vars

\* Interact mode with a selection and a hover carried over.
C6_Witness ==
    /\ ~isInspectMode
    /\ selectedId # NULL
    /\ hoveredId # NULL

\* C7: in Interact mode no overlay is drawn, whatever selectedId and hoveredId
\* are; a switch back to Inspect draws the selection overlay again when the
\* retained selectedId resolves in the frame's document, and the hover overlay
\* when the retained hoveredId resolves and differs from the selection.
C7_OverlaysFollowMode ==
    [][/\ ~isInspectMode' => ~SelectedOverlayDrawn' /\ ~HoveredOverlayDrawn'
       /\ (~isInspectMode /\ isInspectMode') =>
             /\ selectedId' \in FrameIds(frameDoc') => SelectedOverlayDrawn'
             /\ (/\ hoveredId' \in FrameIds(frameDoc')
                 /\ hoveredId' # selectedId') => HoveredOverlayDrawn']_vars

\* Interact mode: two distinct ids that resolve in the page, and no overlay.
C7_Witness ==
    /\ ~isInspectMode
    /\ selectedId \in FrameIds(frameDoc)
    /\ hoveredId \in FrameIds(frameDoc)
    /\ hoveredId # selectedId
    /\ ~SelectedOverlayDrawn
    /\ ~HoveredOverlayDrawn

\* A hover, click or leave of the pointer, over the tree view or the page.
PointerStep ==
    \/ \E id \in Pointable, finder \in FinderOutcomes : TreeClick(id, finder)
    \/ \E id \in Pointable : TreeMouseEnter(id)
    \/ \E target \in Pointable \cup {NoTarget} : HandleMouseOver(target)
    \/ HandleMouseLeave
    \/ \E target \in Pointable \cup {NoTarget}, finder \in FinderOutcomes :
          HandleClick(target, finder)
    \/ \E target \in Pointable \cup {NoTarget} : ClickPassesThrough(target)

\* A click on the rendered page.
PageClickStep ==
    \/ \E target \in Pointable \cup {NoTarget}, finder \in FinderOutcomes :
          HandleClick(target, finder)
    \/ \E target \in Pointable \cup {NoTarget} : ClickPassesThrough(target)

\* C8: in Interact mode no hover, click or leave changes selectedId or hoveredId
\* and a click on the page takes its default action; in Inspect mode every click
\* on the page is intercepted and the page does not navigate.
C8_ModeGatesPointer ==
    [][/\ (PointerStep /\ ~isInspectMode) => UNCHANGED <<selectedId, hoveredId>>
       /\ (PageClickStep /\ ~isInspectMode) => lastClick' = "default"
       /\ (PageClickStep /\ isInspectMode) =>
             lastClick' = "prevented" /\ frameDoc' = frameDoc]_vars

(***************************************************************************)
(* Properties: script generation and failed loads                          *)
(***************************************************************************)
RECURSIVE Concatenation(_)
\* The chunks of a sequence joined in order.
Concatenation(chunks) ==
    IF chunks = <<>> THEN <<>>
    ELSE Head(chunks) \o Concatenation(Tail(chunks))

\* The generation delivers one more chunk in this step.
ChunkDelivered ==
    /\ generation'.count = generation.count
    /\ Len(generation'.yielded) = Len(generation.yielded) + 1

\* The generation's stream ends in this step.
GenerationEnds ==
    /\ ~generation'.pending
    /\ generation.pending \/ generation'.count # generation.count

\* C4: each chunk a generation delivers is appended to the script buffer as it
\* arrives, and when the stream ends the buffer is the concatenation, in order,
\* of all the chunks that generation delivered.
C4_BufferIsConcatenation ==
    [][/\ (ChunkDelivered /\ generation.pending) =>
             generatedScript' =
                generatedScript \o generation'.yielded[Len(generation'.yielded)]
       /\ GenerationEnds =>
             generatedScript' = Concatenation(generation'.yielded)]_vars

\* A pending fetch fails in this step.
FetchFails ==
    \E k \in 1..Len(fetches) :
       /\ fetches[k].status = "pending"
       /\ fetches'[k].status = "rejected"

\* C5: a failed fetch leaves the loaded HTML (and so the tree), the loaded URL,
\* the selection, the hover, the scrape targets, the script and the result as
\* they were; it raises one alert and clears the loading flag, and changes
\* nothing else of the App or of the rendered page.
C5_FailedLoadKeepsState ==
    [][FetchFails =>
          /\ UNCHANGED <<rawHtml, loadedUrl, selectedId, hoveredId,
                         scrapeTargets, generatedScript, scrapedResult>>
          /\ alerts' = alerts + 1
          /\ ~isLoadingUrl'
          /\ UNCHANGED <<urlInput, isInspectMode, targetName,
                         targetDescription, isScraping, currentSelector,
                         generation, frameDoc, selectedRect, hoveredRect>>]_vars

\* A load failed after an earlier one succeeded, and a selection, a rule, a
\* script and a result are in place.
C5_Witness ==
    /\ alerts > 0
    /\ fetches # <<>>
    /\ fetches[Len(fetches)].status = "rejected"
    /\ ~isLoadingUrl
    /\ loadedUrl # ""
    /\ selectedId # NULL
    /\ scrapeTargets # <<>>
    /\ generatedScript # <<>>
    /\ scrapedResult # NoResult

(***************************************************************************)
(* Properties: selectors and the rule queue                                *)
(***************************************************************************)
\* C9: while the selected id does not resolve to an element of the frame's
\* document the selector is the "unable to generate" sentinel, and a rule added
\* then carries the sentinel.
C9_SentinelWhenUnresolved ==
    [][/\ (selectedId' # NULL /\ selectedId' \notin FrameIds(frameDoc')) =>
             currentSelector' = UnableToGenerate
       /\ (/\ Len(scrapeTargets') = Len(scrapeTargets) + 1
           /\ selectedId \notin FrameIds(frameDoc)) =>
             scrapeTargets'[Len(scrapeTargets')].selector = UnableToGenerate]_vars

\* C10: the rule queue grows only when a node is selected and the name is not
\* empty, and then by exactly one entry at its end: the selected id, the selector
\* of the selected node, the name, and the entered instruction or, when none was
\* entered, the default one.  Adding with a selection and a name always appends.
C10_AddTargetAppendsEntry ==
    [][LET n == Len(scrapeTargets) IN
       /\ Len(scrapeTargets') > n =>
             /\ selectedId # NULL
             /\ targetName # ""
             /\ Len(scrapeTargets') = n + 1
             /\ SubSeq(scrapeTargets', 1, n) = scrapeTargets
             /\ LET entry == scrapeTargets'[n + 1] IN
                /\ entry.id = selectedId
                /\ entry.name = targetName
                /\ entry.selector = currentSelector
                /\ entry.selector \in
                      {"", UnableToGenerate, "finder:" \o selectedId}
                /\ entry.description =
                      IF targetDescription = "" THEN "Get text content"
                      ELSE targetDescription
       /\ (HandleAddTarget /\ selectedId # NULL /\ targetName # "") =>
             Len(scrapeTargets') = n + 1]_vars

\* Two rules in the queue, the first with the default instruction and the second
\* with an entered one.
C10_Witness ==
    /\ Len(scrapeTargets) = 2
    /\ scrapeTargets[1].description = DefaultDescription
    /\ scrapeTargets[2].description \in Instructions
    /\ scrapeTargets[2].name \in FieldNames

(***************************************************************************)
(* Properties: removing rules                                              *)
(***************************************************************************)
\* The rule queue with scripts generated and run, and no page load.
NextQueue ==
    \/ FrameLoadActions
    \/ TreeClick("root-0-0", "selector")
    \/ TreeMouseEnter("root-0")
    \/ TargetActions
    \/ ScriptActions

SpecQueue == Init /\ [][NextQueue]_vars

\* The state a removal must leave alone.
stateBesidesTargets ==
    <<urlInput, loadedUrl, isLoadingUrl, rawHtml, selectedId, hoveredId,
      isInspectMode, targetName, targetDescription, generatedScript,
      scrapedResult, isScraping, currentSelector, frameDoc, selectedRect,
      hoveredRect>>

\* C11: removing the rule at position index (counted from 0) deletes exactly that
\* entry, keeps the other entries and their order, and changes nothing else
\* (selection, hover, content, script, result); removing at an index outside the
\* queue leaves the queue as it is.
C11_RemoveTargetByPosition ==
    [][/\ \A index \in 0..(MaxTargets - 1) :
             HandleRemoveTarget(index) =>
                /\ Len(scrapeTargets') = Len(scrapeTargets) - 1
                /\ \A j \in 1..Len(scrapeTargets') :
                      scrapeTargets'[j] =
                         IF j <= index THEN scrapeTargets[j]
                         ELSE scrapeTargets[j + 1]
                /\ UNCHANGED stateBesidesTargets
       /\ \A index \in {-1} \cup (Len(scrapeTargets')..(MaxTargets + 1)) :
             RemoveAt(scrapeTargets', index) = scrapeTargets']_vars

\* Every rule was removed after a script was generated from the queue and run,
\* with a selection and a hover in place.
C11_Witness ==
    /\ scrapeTargets = <<>>
    /\ generation.count > 0
    /\ generatedScript # <<>>
    /\ scrapedResult # NoResult
    /\ selectedId # NULL
    /\ hoveredId # NULL

(***************************************************************************)
(* Properties: the AI streams                                              *)
(***************************************************************************)
\* Both AI streams, with or without the key, on the example page.
NextAi ==
    \/ \E id \in Pointable : TreeClick(id, "selector")
    \/ SetTargetName("title")
    \/ HandleAddTarget
    \/ \E response \in ServiceResponses : HandleGenerateScraper(response)
    \/ StreamChunk
    \/ StreamEnds
    \/ InsightActions

SpecAi == Init /\ [][NextAi]_vars

\* C12: without an API key a script generation and an element explanation each
\* deliver exactly one explanatory chunk and end within the step that started
\* them: the service is never called and the consumer's loop finishes, its busy
\* flag cleared.
C12_NoKeyShortCircuits ==
    [][~apiKey =>
          /\ serviceCalls' = 0
          /\ generation'.count # generation.count =>
                /\ generation'.yielded = <<NoApiKeyChunk>>
                /\ ~generation'.pending
                /\ generatedScript' = NoApiKeyChunk
                /\ ~isScraping'
          /\ analysis'.count # analysis.count =>
                /\ analysis'.yielded = <<NoApiKeyNotice>>
                /\ ~analysis'.pending
                /\ aiAnalysis' = NoApiKeyNotice
                /\ ~isAnalyzing']_vars

\* Without a key, a generation and an explanation have both run.
C12_Witness ==
    /\ ~apiKey
    /\ generation.count > 0
    /\ analysis.count > 0
    /\ generatedScript = NoApiKeyChunk
    /\ aiAnalysis = NoApiKeyNotice
    /\ serviceCalls = 0

\* The script stream, respectively the explanation stream, throws in this step.
GenerationThrows ==
    generation.pending /\ generation.throws /\ ~generation'.pending

AnalysisThrows ==
    analysis.pending /\ analysis.throws /\ ~analysis'.pending

\* C13: when the AI call or its stream throws, before the first chunk or after
\* some, the stream delivers one fallback chunk after the chunks it already
\* delivered and ends, and the consumer finishes: its busy flag (isScraping,
\* isAnalyzing) is cleared.
C13_ThrowYieldsFallback ==
    [][/\ GenerationThrows =>
             /\ generation'.yielded =
                   Append(generation.yielded, GenerationErrorChunk)
             /\ generatedScript' = generatedScript \o GenerationErrorChunk
             /\ ~isScraping'
       /\ AnalysisThrows =>
             /\ analysis'.yielded = Append(analysis.yielded, AnalysisErrorChunk)
             /\ aiAnalysis' = aiAnalysis \o AnalysisErrorChunk
             /\ ~isAnalyzing']_vars

\* A generation whose call threw before its first chunk and an explanation whose
\* stream threw after one chunk have both ended.
C13_Witness ==
    /\ ~generation.pending
    /\ generation.yielded = <<GenerationErrorChunk>>
    /\ ~isScraping
    /\ ~analysis.pending
    /\ analysis.yielded = <<InsightOne, AnalysisErrorChunk>>
    /\ ~isAnalyzing

(***************************************************************************)
(* Properties: fences in the script stream                                 *)
(***************************************************************************)
\* Chunks one service output is cut into.
MaxChunks == 3

\* A script the service wraps in a markdown fence.
FencedOutput ==
    FenceJavascript \o <<"\n">> \o ChunkThree \o <<"\n">> \o Fence

\* Every way of cutting text into at most MaxChunks non-empty chunks.
Splits(text) ==
    LET n == Len(text)
        cuts == {c \in SUBSET (1..(n - 1)) : Cardinality(c) < MaxChunks}
        start(c, k) ==
            IF k = 1 THEN 1
            ELSE 1 + CHOOSE i \in c : Cardinality({m \in c : m < i}) = k - 2
        end(c, k) ==
            IF k = Cardinality(c) + 1 THEN n
            ELSE CHOOSE i \in c : Cardinality({m \in c : m < i}) = k - 1
    IN  {[k \in 1..(Cardinality(c) + 1) |->
             SubSeq(text, start(c, k), end(c, k))] : c \in cuts}

SplitResponses ==
    {[chunks |-> chunks, throws |-> FALSE] : chunks \in Splits(FencedOutput)}

\* text occurs in s.
Contains(s, text) ==
    \E i \in 1..(Len(s) - Len(text) + 1) :
       SubSeq(s, i, i + Len(text) - 1) = text

\* Generating from a fenced output, cut in every way.
NextFence ==
    \/ TreeClick("root-0-0", "selector")
    \/ SetTargetName("title")
    \/ HandleAddTarget
    \/ \E response \in SplitResponses : HandleGenerateScraper(response)
    \/ StreamChunk
    \/ StreamEnds

SpecFence == InitWithKey /\ [][NextFence]_vars

\* C14: however the service's output is cut into chunks, the script assembled
\* when the stream ends contains no markdown fence marker.
C14_NoFenceInScript ==
    [][(generation.pending /\ ~generation'.pending) =>
          ~Contains(generatedScript', Fence)]_vars

(***************************************************************************)
(* Properties: running the script                                          *)
(***************************************************************************)
\* The state a run must leave alone.
stateBesidesResult ==
    <<urlInput, loadedUrl, isLoadingUrl, rawHtml, selectedId, hoveredId,
      isInspectMode, scrapeTargets, targetName, targetDescription,
      generatedScript, isScraping, currentSelector, envVars, frameDoc,
      selectedRect, hoveredRect>>

\* C15: a run whose source is malformed or whose function throws sets the result
\* to the structured {error, details} value and changes nothing else; a run that
\* returns sets the result to the returned value and changes nothing else; the
\* result is never set by a run while the generated script is empty.
C15_RunNeverPropagates ==
    [][/\ \A outcome \in RunOutcomes :
             HandleRunScraper(outcome) =>
                /\ outcome = "throws" =>
                      /\ scrapedResult'.kind = "failure"
                      /\ scrapedResult'.error = "Failed to execute script"
                      /\ scrapedResult'.details = "Error"
                /\ outcome = "returns" => scrapedResult' = ExtractedData
                /\ UNCHANGED stateBesidesResult
       /\ (scrapedResult' # scrapedResult /\ scrapedResult' # NoResult) =>
             generatedScript # <<>>]_vars

\* A run failed with a script, a rule and a selection in place.
C15_Witness ==
    /\ scrapedResult.kind = "failure"
    /\ generatedScript # <<>>
    /\ scrapeTargets # <<>>
    /\ selectedId # NULL

(***************************************************************************)
(* utils/domParser on generated documents                                  *)
(***************************************************************************)
\* parseHtmlContent called with one of the generated documents.
InitParser ==
    /\ InitApp
    /\ InitHandles
    /\ apiKey
    /\ parseCall \in {ParseCalled(html) : html \in Documents(MaxChildren)}
    /\ selectorCall = NoSelectorCall

NextParser ==
    \/ ParseHtmlContent
    \/ \E targetId \in NodeIds(parseCall.root) \cup {NoSuchId} :
          GenerateCssSelector(targetId)

SpecParser == InitParser /\ [][NextParser]_vars

RECURSIVE NodeList(_)
RECURSIVE NodeListOf(_, _)
\* The nodes of a list of subtrees, from position i, in document order.
NodeListOf(children, i) ==
    IF i > Len(children) THEN <<>>
    ELSE NodeList(children[i]) \o NodeListOf(children, i + 1)

\* The nodes of a tree in document order (a node before its children).
NodeList(node) == <<node>> \o NodeListOf(node.children, 1)

\* C16: the ids of all nodes of the tree parseHtmlContent builds (the synthetic
\* root, the elements and the text runs) are pairwise distinct.
C16_TreeIdsDistinct ==
    parseCall.state = "returned" =>
        LET nodes == NodeList(parseCall.root) IN
        \A i, j \in 1..Len(nodes) : i # j => nodes[i].id # nodes[j].id

\* A parsed tree with two text runs and two elements under one parent.
C16_Witness ==
    /\ parseCall.state = "returned"
    /\ \E n \in 1..Len(NodeList(parseCall.root)) :
          LET children == NodeList(parseCall.root)[n].children IN
          /\ Cardinality({k \in 1..Len(children) : children[k].tag = "#text"}) >= 2
          /\ Cardinality({k \in 1..Len(children) : children[k].tag # "#text"}) >= 1

RECURSIVE SourceShape(_, _)
\* What a list of DOM child nodes holds, from position i: its elements (with
\* what they hold) and its text nodes that are not whitespace only, in order.
SourceShape(childNodes, i) ==
    IF i > Len(childNodes) THEN <<>>
    ELSE LET n == childNodes[i] IN
         IF n.nodeType = "ELEMENT_NODE"
         THEN << [tag |-> ToLowerCase(n.tagName), textContent |-> <<>>,
                  children |-> SourceShape(n.childNodes, 1)] >>
              \o SourceShape(childNodes, i + 1)
         ELSE IF Trim(n.textContent) # <<>>
         THEN << [tag |-> "#text", textContent |-> n.textContent,
                  children |-> <<>>] >>
              \o SourceShape(childNodes, i + 1)
         ELSE SourceShape(childNodes, i + 1)

RECURSIVE TreeShape(_)
\* The same view of a list of tree nodes.
TreeShape(children) ==
    [k \in 1..Len(children) |->
        [tag |-> children[k].tag, textContent |-> children[k].textContent,
         children |-> TreeShape(children[k].children)]]

RECURSIVE TextCount(_)
\* The number of #text entries of a shape.
TextCount(shape) ==
    IF shape = <<>> THEN 0
    ELSE (IF Head(shape).tag = "#text" THEN 1 ELSE 0)
         + TextCount(Head(shape).children) + TextCount(Tail(shape))

\* C17: the tree under the synthetic root holds, in document order, exactly the
\* elements of <body> and the text runs whose trimmed content is not empty, so
\* it has as many #text nodes as the source has non-whitespace text nodes.
C17_TreeMirrorsBody ==
    parseCall.state = "returned" =>
        /\ TreeShape(parseCall.root.children) = SourceShape(parseCall.html.body, 1)
        /\ TextCount(TreeShape(parseCall.root.children))
              = TextCount(SourceShape(parseCall.html.body, 1))

RECURSIVE DomElements(_, _)
\* The elements under a list of DOM child nodes, from position i, in document
\* order.
DomElements(childNodes, i) ==
    IF i > Len(childNodes) THEN <<>>
    ELSE IF childNodes[i].nodeType = "ELEMENT_NODE"
    THEN <<childNodes[i]>> \o DomElements(childNodes[i].childNodes, 1)
         \o DomElements(childNodes, i + 1)
    ELSE DomElements(childNodes, i + 1)

\* The data-inspector-id values an element carries.
TraceableIds(element) ==
    {element.attrs[a][2] :
        a \in {b \in 1..Len(element.attrs) :
                  element.attrs[b][1] = "data-inspector-id"}}

TargetNode == findNode(parseCall.root, selectorCall.targetId)

\* A selector was computed for a node below the synthetic root.
SelectorReturned ==
    /\ parseCall.state = "returned"
    /\ selectorCall # NoSelectorCall
    /\ TargetNode # NoNode
    /\ TargetNode # parseCall.root

RECURSIVE AfterLastSeparator(_, _)
\* The pieces of a joined string after its last separator.
AfterLastSeparator(string, separator) ==
    IF \E k \in 1..Len(string) : string[k] = separator
    THEN AfterLastSeparator(Tail(string), separator)
    ELSE string

LastSegment == AfterLastSeparator(selectorCall.selector, " > ")

HasAttribute(node, name) ==
    \E k \in 1..Len(node.attributes) : node.attributes[k][1] = name

RECURSIVE UpToWhitespace(_)
\* The characters of a string before its first whitespace character.
UpToWhitespace(s) ==
    IF s = <<>> \/ Head(s) \in Whitespace THEN <<>>
    ELSE <<Head(s)>> \o UpToWhitespace(Tail(s))

\* The first whitespace-separated token of an attribute value (empty when the
\* value has none).
FirstToken(value) == UpToWhitespace(TrimLeft(value))

\* C19 as stated: the last segment of the selector is tag#id when the target has
\* a non-empty id attribute, and tag.<first class token> when it has a class
\* attribute but no id.
C19_LastSegmentAsStated ==
    SelectorReturned =>
        LET id == AttributeValue(TargetNode.attributes, "id")
            class == AttributeValue(TargetNode.attributes, "class")
        IN  /\ id # <<>> => LastSegment = <<TargetNode.tag, "#">> \o id
            /\ (HasAttribute(TargetNode, "class") /\ ~HasAttribute(TargetNode, "id"))
                  => LastSegment = <<TargetNode.tag, ".">> \o FirstToken(class)

\* C19, amended: the last segment is tag#id when the target has a non-empty id
\* attribute; without one it is tag.<first class token> when the class attribute
\* holds a token, and has no class part when the class attribute is empty or
\* whitespace only.
C19_LastSegmentByIdThenClassToken ==
    SelectorReturned =>
        LET id == AttributeValue(TargetNode.attributes, "id")
            class == AttributeValue(TargetNode.attributes, "class")
        IN  /\ id # <<>> => LastSegment = <<TargetNode.tag, "#">> \o id
            /\ (id = <<>> /\ FirstToken(class) # <<>>)
                  => LastSegment = <<TargetNode.tag, ".">> \o FirstToken(class)
            /\ (id = <<>> /\ HasAttribute(TargetNode, "class")
                          /\ FirstToken(class) = <<>>)
                  => /\ LastSegment[1] = TargetNode.tag
                     /\ \A k \in 1..Len(LastSegment) : LastSegment[k] # "."

\* A selector of two segments or more whose target has a class attribute with
\* two tokens and no id.
C19_Witness ==
    /\ SelectorReturned
    /\ Len(LastSegment) < Len(selectorCall.selector)
    /\ ~HasAttribute(TargetNode, "id")
    /\ AttributeValue(TargetNode.attributes, "class") = ClassCardBig
    /\ LastSegment = <<"p", ".", "c", "a", "r", "d">>

\* The node of the tree that has the target among its children.
TargetParent ==
    LET nodes == NodeList(parseCall.root) IN
    nodes[CHOOSE n \in 1..Len(nodes) :
             \E k \in 1..Len(nodes[n].children) :
                 nodes[n].children[k].id = selectorCall.targetId]

\* The target's position among its parent's children, counted from 1.
TargetPosition ==
    CHOOSE k \in 1..Len(TargetParent.children) :
        TargetParent.children[k].id = selectorCall.targetId

\* The positions of the parent's children that have the target's tag.
SameTagPositions ==
    {k \in 1..Len(TargetParent.children) :
        TargetParent.children[k].tag = TargetNode.tag}

\* C20: a target with neither id nor class that has same-tag siblings gets
\* :nth-of-type(n), n being its position, counted from 1, among the siblings of
\* its tag only; a target without a same-tag sibling gets the bare tag.
C20_NthOfTypeAmongSameTag ==
    (/\ SelectorReturned
     /\ ~HasAttribute(TargetNode, "id")
     /\ ~HasAttribute(TargetNode, "class")) =>
        IF Cardinality(SameTagPositions) > 1
        THEN LastSegment =
                <<TargetNode.tag, ":nth-of-type(",
                  ToString(Cardinality({k \in SameTagPositions :
                                           k <= TargetPosition})),
                  ")">>
        ELSE LastSegment = <<TargetNode.tag>>

\* The third child of a <div>, a <p> after a <p> and a node of another tag, gets
\* index 2.
C20_Witness ==
    /\ SelectorReturned
    /\ TargetNode.tag = "p"
    /\ TargetNode.attributes = <<>>
    /\ TargetPosition = 3
    /\ Cardinality(SameTagPositions) = 2
    /\ LastSegment = <<"p", ":nth-of-type(", "2", ")">>

\* The node of the tree that has the node id among its children.
ParentOf(id) ==
    LET nodes == NodeList(parseCall.root) IN
    nodes[CHOOSE n \in 1..Len(nodes) :
             \E k \in 1..Len(nodes[n].children) : nodes[n].children[k].id = id]

RECURSIVE AncestorChain(_)
\* The nodes from just below the synthetic root down to the node id, inclusive.
AncestorChain(id) ==
    IF id = parseCall.root.id THEN <<>>
    ELSE Append(AncestorChain(ParentOf(id).id), findNode(parseCall.root, id))

RECURSIVE SplitAt(_, _, _)
\* The segments of a joined string, with the segment being read: none for the
\* empty string.
SplitAt(string, separator, segment) ==
    IF string = <<>> THEN (IF segment = <<>> THEN <<>> ELSE <<segment>>)
    ELSE IF Head(string) = separator
    THEN <<segment>> \o SplitAt(Tail(string), separator, <<>>)
    ELSE SplitAt(Tail(string), separator, Append(segment, Head(string)))

SelectorSegments == SplitAt(selectorCall.selector, " > ", <<>>)

\* The selector has one segment for each node of the target's ancestor chain, in
\* root-to-target order.
OneSegmentPerChainNode ==
    LET chain == AncestorChain(selectorCall.targetId) IN
    /\ Len(SelectorSegments) = Len(chain)
    /\ \A k \in 1..Len(chain) : SelectorSegments[k][1] = chain[k].tag

\* <div><p></p><p></p></div>
TwoPlainParagraphs ==
    [body |-> << Element("DIV", <<>>,
                    << Element("P", <<>>, <<>>), Element("P", <<>>, <<>>) >>) >>]

\* generateCssSelector has returned.
SelectorCallReturned ==
    parseCall.state = "returned" /\ selectorCall # NoSelectorCall

\* C21 as stated: the selector is empty when the target id is not in the tree;
\* otherwise it has one segment for each node from just below the synthetic root
\* down to the target, in that order, joined by " > ".
C21_SegmentsAsStated ==
    SelectorCallReturned =>
        IF TargetNode = NoNode THEN selectorCall.selector = <<>>
        ELSE OneSegmentPerChainNode

\* C21, amended: the selector is empty when the target id is not in the tree and
\* the word root when the target is the synthetic root; otherwise it has one
\* segment for each node from just below the root down to the target, in that
\* order, joined by " > ": div > p:nth-of-type(2) for the second of two plain p
\* children of a top-level div.
C21_SegmentsBelowRoot ==
    SelectorCallReturned =>
        /\ TargetNode = NoNode => selectorCall.selector = <<>>
        /\ TargetNode = parseCall.root => selectorCall.selector = <<"root">>
        /\ SelectorReturned => OneSegmentPerChainNode
        /\ (parseCall.html = TwoPlainParagraphs /\ selectorCall.targetId = "root-0-1")
              => selectorCall.selector =
                    <<"div", " > ", "p", ":nth-of-type(", "2", ")">>

\* The selector of the second of two plain p children of a top-level div.
C21_Witness ==
    /\ SelectorReturned
    /\ parseCall.html = TwoPlainParagraphs
    /\ selectorCall.targetId = "root-0-1"
    /\ Len(SelectorSegments) = 2

(***************************************************************************)
(* VisualViewer: listener attachment after a write                         *)
(***************************************************************************)
\* Every timeout runs 100 ms after its write, so the timeouts fire in the order
\* of their writes and the latest write's own timeout is the last one pending.
OwnTimeoutFired == timers = 0

\* The load event has been delivered since the latest write.
OwnLoadDelivered == ~onloadPending

\* C22: after a write of content to the frame the listeners are attached only
\* once the load event or the fallback timeout of that write has occurred.
C22_AttachedAfterOwnSignal ==
    listeners # "none" => (OwnLoadDelivered \/ OwnTimeoutFired)

(***************************************************************************)
(* VisualViewer: what the Inspect-mode handlers set                        *)
(***************************************************************************)
\* The nearest ancestor-or-self of an event target that carries a
\* data-inspector-id in the frame's document, by its id; NULL when there is none.
NearestIdentified(target) ==
    IF target \in FrameIds(frameDoc) THEN target ELSE NULL

\* C24: a hover handled in Inspect mode sets hoveredId to the id of the target's
\* nearest identified ancestor-or-self, or to absent when there is none or the
\* pointer leaves; a click sets selectedId to that id, or leaves it unchanged
\* when there is none.
C24_PointerSetsNearestId ==
    [][ /\ \A target \in Pointable \cup {NoTarget} :
              HandleMouseOver(target) =>
                  /\ isInspectMode
                  /\ hoveredId' = NearestIdentified(target)
                  /\ selectedId' = selectedId
        /\ HandleMouseLeave =>
              /\ isInspectMode
              /\ hoveredId' = NULL
              /\ selectedId' = selectedId
        /\ \A target \in Pointable \cup {NoTarget}, finder \in FinderOutcomes :
              HandleClick(target, finder) =>
                  /\ isInspectMode
                  /\ selectedId' =
                        IF NearestIdentified(target) # NULL
                        THEN NearestIdentified(target) ELSE selectedId
                  /\ hoveredId' = hoveredId ]_vars

\* In Inspect mode a click has selected one element of the page while the pointer
\* is over another.
C24_Witness ==
    /\ isInspectMode
    /\ lastClick = "prevented"
    /\ selectedId \in FrameIds(frameDoc)
    /\ hoveredId \in FrameIds(frameDoc)
    /\ hoveredId # selectedId

(***************************************************************************)
(* VisualViewer: the highlights drawn                                      *)
(***************************************************************************)
SelectedColor == "#ffffff"

HoveredColor == "#71717a"

\* The highlights the two Overlay components paint.
DrawnHighlights ==
    (IF SelectedOverlayDrawn
     THEN {[of |-> "selectedId", targetId |-> selectedId, color |-> SelectedColor]}
     ELSE {})
    \cup
    (IF HoveredOverlayDrawn
     THEN {[of |-> "hoveredId", targetId |-> hoveredId, color |-> HoveredColor]}
     ELSE {})

\* C25: at most two highlights are drawn, one for selectedId and one for
\* hoveredId; the hover highlight is drawn only when hoveredId is present and
\* differs from selectedId, and two drawn highlights have different colors.
C25_TwoDistinctHighlights ==
    /\ Cardinality(DrawnHighlights) <= 2
    /\ \A h \in DrawnHighlights :
          h.of = "hoveredId" => (hoveredId # NULL /\ hoveredId # selectedId)
    /\ \A g, h \in DrawnHighlights :
          g # h => (g.of # h.of /\ g.color # h.color /\ g.targetId # h.targetId)

\* Both highlights are drawn.
C25_Witness ==
    /\ Cardinality(DrawnHighlights) = 2
    /\ selectedId # NULL
    /\ hoveredId # NULL

\* The number of element nodes among the first k - 1 children of a tree node.
ElementsBefore(children, k) ==
    Cardinality({m \in 1..(k - 1) : children[m].tag # "#text"})

\* C26: an element's id is its parent's id, a dash and the element's zero-based
\* index among the element siblings of its level; a text run's id is the
\* parent's id, -txt- and its index in the counter it shares with the elements;
\* top-level nodes hang under the id root.
C26_IdsFromElementIndex ==
    parseCall.state = "returned" =>
        /\ parseCall.root.id = "root"
        /\ LET nodes == NodeList(parseCall.root) IN
           \A n \in 1..Len(nodes) :
              LET children == nodes[n].children IN
              \A k \in 1..Len(children) :
                 children[k].id =
                    IF children[k].tag # "#text"
                    THEN nodes[n].id \o "-"
                            \o ToString(ElementsBefore(children, k))
                    ELSE nodes[n].id \o "-txt-" \o ToString(k - 1)

\* The tree of <div><p>Hello</p><p>World</p></div>: root-0, root-0-0 and
\* root-0-1, each p holding one #text child.
ScenarioTreeIds ==
    LET tree == parseHtmlContent(PageA).root
        div == tree.children[1]
    IN  /\ Len(tree.children) = 1
        /\ div.id = "root-0"
        /\ Len(div.children) = 2
        /\ div.children[1].id = "root-0-0"
        /\ div.children[2].id = "root-0-1"
        /\ \A k \in 1..2 :
              /\ Len(div.children[k].children) = 1
              /\ div.children[k].children[1].tag = "#text"
        /\ div.children[1].children[1].textContent = TxtHello
        /\ div.children[2].children[1].textContent = TxtWorld

\* C26, amended: the id of a node is its parent's id, a dash (-txt- for a text
\* run) and the node's zero-based index among the element and text-run siblings
\* of its level, one counter serving both; top-level nodes hang under the id
\* root.
C26_IdsFromSharedCounter ==
    parseCall.state = "returned" =>
        /\ parseCall.root.id = "root"
        /\ LET nodes == NodeList(parseCall.root) IN
           \A n \in 1..Len(nodes) :
              LET children == nodes[n].children IN
              \A k \in 1..Len(children) :
                 children[k].id =
                    nodes[n].id
                    \o (IF children[k].tag # "#text" THEN "-" ELSE "-txt-")
                    \o ToString(k - 1)
        /\ ScenarioTreeIds

\* A parsed <div> whose first child is a text run and whose second is an element.
C26_Witness ==
    /\ parseCall.state = "returned"
    /\ \E n \in 1..Len(NodeList(parseCall.root)) :
          LET children == NodeList(parseCall.root)[n].children IN
          /\ Len(children) >= 2
          /\ children[1].tag = "#text"
          /\ children[2].tag = "p"
          /\ children[2].id = "root-0-1"

(***************************************************************************)
(* ResizableHandle under its parent: drag sessions                         *)
(***************************************************************************)
\* The handles with the pointer and with a parent that can stop rendering them.
\* App itself renders its three handles unconditionally; the viewer's reaction to
\* isResizing is outside this specification.
NextHandle ==
    \/ \E h \in Handles : HandleMouseDown(h)
    \/ \E h \in Handles, position \in PointerPositions :
          WindowMouseMove(h, position)
    \/ \E h \in Handles : WindowMouseUp(h)
    \/ \E h \in Handles : HandleUnmounted(h)
    \/ \E h \in Handles : HandleMounted(h)

SpecHandle == InitWithKey /\ [][NextHandle]_vars

\* C27: after the mouse-up, or after the handle is torn down while dragging, no
\* window listener of the session remains and the session is ended: dragging is
\* false and the end of the resize has been signalled to the parent.
C27_DragAlwaysReleased ==
    [][ \A h \in Handles :
          (\/ WindowMouseUp(h)
           \/ (HandleUnmounted(h) /\ handle[h].isDragging))
          => /\ ~handle'[h].listening
             /\ ~handle'[h].isDragging
             /\ handle'[h].endSignalled
             /\ ~isResizing' ]_vars

\* Some fetchUrlContent call started by a submit has neither returned nor thrown.
FetchOutstanding == \E k \in 1..Len(fetches) : fetches[k].status = "pending"

NextInsight ==
    \/ LoadActions
    \/ FrameLoadActions
    \/ \E id \in Pointable : TreeClick(id, "selector")
    \/ InsightActions

SpecInsight == InitWithKey /\ [][NextInsight]_vars

\* {aiAnalysis && selectedId && (...)}: the AI Insight paragraph is rendered.
InsightShown == aiAnalysis # <<>> /\ selectedId # NULL

\* C29: the AI explanation shown always belongs to the currently selected node:
\* it was requested for that node of the document now loaded, never for a node
\* selected earlier or for a node of a document that has since been replaced.
C29_InsightOfSelectedNode == InsightShown => analysis.element = selectedNode

(***************************************************************************)
(* Declaring scrape targets while pages are loaded                         *)
(***************************************************************************)
NextDeclared ==
    \/ \E url \in Urls : SetUrlInput(url)
    \/ HandleUrlSubmit
    \/ \E k \in 1..MaxSubmits : FetchResolved(k)
    \/ \E k \in 1..MaxSubmits : FetchRejected(k)
    \/ FrameLoadActions
    \/ \E id \in {"root-0", "root-0-0"} : TreeClick(id, "selector")
    \/ \E target \in Pointable : HandleClick(target, "selector")
    \/ SetTargetName("title")
    \/ HandleAddTarget
    \/ \E index \in 0..(MaxTargets - 1) : HandleRemoveTarget(index)

SpecDeclared == InitWithKey /\ [][NextDeclared]_vars

\* C30: in every reachable state the id of each scrape target in the set is the
\* id of a node of the tree of the currently loaded document.
C30_TargetsOfCurrentDocument ==
    \A i \in 1..Len(scrapeTargets) : scrapeTargets[i].id \in TreeIds[rawHtml]

\* A rule declared on page B, which was loaded over another document.
C30_Witness ==
    /\ rawHtml = "pageB"
    /\ \E k \in 1..Len(fetches) :
          fetches[k].status = "resolved" /\ fetches[k].url = "b.test"
    /\ Len(scrapeTargets) = 1
    /\ scrapeTargets[1].id = "root-0"

====
